---------------------------- MODULE Spec2Model ----------------------------
(***************************************************************************)
(* Agent orchestration engine of server.js: the per-agent turn loop, the   *)
(* tool-call / tool-response bookkeeping of a transcript, the message bus, *)
(* and the supervisor of one conversation (completion, stop, timeout).     *)
(*                                                                         *)
(* Node runs one callback at a time.  An action of this module is one      *)
(* callback of the event loop together with the microtasks it queues: a    *)
(* timer firing, an HTTP request, or the arrival of a completion-service   *)
(* response.  The only suspension that lets other callbacks in is the      *)
(* await of the completion service (server.js:914).                        *)
(***************************************************************************)
EXTENDS Integers, Sequences, FiniteSets, TLC

(***************************************************************************)
(* Program constants.                                                      *)
(***************************************************************************)
LOCK_TIMEOUT == 30000
maxTalkCalls == 30
IDLE_THRESHOLD == 20000
NUDGE_PERIOD == 15000
TEXT_NUDGE_DELAY == 2000
SEED_DELAY == 1000
SESSION_TIMEOUT == 180000
AGENT_COUNT == 3

(***************************************************************************)
(* Bounds of the model.                                                    *)
(***************************************************************************)
\* answers with tool calls in one session (Spec, TalkSpec)
MaxToolTurns == 1
\* answers with tool calls of one agent (TurnSpec)
MaxAgentToolTurns == 1
\* answers of backend that hold a burst of talk calls (BudgetSpec)
MaxBursts == 2
\* advances of the clock (LockSpec)
MaxTicks == 3
\* length of the strings given to replace (ReplaceSpec)
MaxLen == 2
\* tool calls in one assistant turn (TurnSpec)
MaxCalls == 3
\* /stop-conversation requests
MaxStops == 2
\* milliseconds within which the completion service answers, if it does
MaxLatency == 2000

\* Object.entries(agents), server.js:1511
AgentOrder == <<"backend", "devops", "frontend">>
Agents == {AgentOrder[i] : i \in 1..Len(AgentOrder)}

\* The id of the one conversation that was started, and an id never started.
SessionId == 1
UnknownId == 2

VARIABLES
  now,                  \* Date.now()
  conversationHistory,  \* agent -> transcript
  inbox,                \* agent -> queued messages, oldest first
  talkCallCount,        \* agent -> talk calls made
  isComplete,           \* agent -> BOOLEAN
  isProcessing,         \* agent -> BOOLEAN (the turn loop is active)
  needsAnotherRun,      \* agent -> BOOLEAN
  textOnlyResponses,    \* agent -> consecutive text-only responses
  lastActivityTime,     \* agent -> timestamp
  inFlight,             \* agent -> turns awaiting the completion service
  request,              \* agent -> messages of the last completion-service call
  turns,                \* agent -> completion-service calls made so far
  textNudges,           \* agent -> due times of pending text-only nudge timers
  completedAgents,      \* the supervisor's set
  resolved,             \* state of the conversationComplete promise
  status,               \* conversations.get(id).status
  timeoutTimer,         \* the 3-minute timer is pending
  seedTimer,            \* the seed timer is pending
  nudgeInterval,        \* the idle watchdog is running
  nextCheck,            \* due time of the next idle-watchdog check
  files,                \* the file system: absolute path -> content
  dirs,                 \* the directories that exist
  locks,                \* FileLockManager.locks: path as given -> lock
  msgSeq,               \* messages queued so far (gives each its identity)
  sessionCompleteEvents,\* conversation:complete broadcasts
  completeEmits,        \* agent -> agent:complete signals emitted
  resumedEmits,         \* agent -> agent:resumed signals emitted
  controls,             \* ids with a '<id>_control' entry in conversations
  stopReply,            \* reply of the last /stop-conversation request
  log                   \* observations about the run (history variable)

vars == <<now, conversationHistory, inbox, talkCallCount, isComplete,
          isProcessing, needsAnotherRun, textOnlyResponses, lastActivityTime,
          inFlight, request, turns, textNudges, completedAgents, resolved,
          status, timeoutTimer, seedTimer, nudgeInterval, nextCheck, files,
          dirs, locks, msgSeq, sessionCompleteEvents, completeEmits, resumedEmits,
          controls, stopReply, log>>

(***************************************************************************)
(* The state as one record, so that a handler is a function from state to  *)
(* state and calls compose as they do in the code.  thenPending is the     *)
(* queued reaction of conversationComplete.then: it is run before the      *)
(* callback's microtasks are drained, so it is never set between actions.  *)
(***************************************************************************)
World ==
  [now |-> now, conversationHistory |-> conversationHistory, inbox |-> inbox,
   talkCallCount |-> talkCallCount, isComplete |-> isComplete,
   isProcessing |-> isProcessing, needsAnotherRun |-> needsAnotherRun,
   textOnlyResponses |-> textOnlyResponses,
   lastActivityTime |-> lastActivityTime, inFlight |-> inFlight,
   request |-> request, turns |-> turns, textNudges |-> textNudges,
   completedAgents |-> completedAgents, resolved |-> resolved,
   status |-> status, timeoutTimer |-> timeoutTimer, seedTimer |-> seedTimer,
   nudgeInterval |-> nudgeInterval, nextCheck |-> nextCheck, files |-> files,
   dirs |-> dirs, locks |-> locks, msgSeq |-> msgSeq,
   sessionCompleteEvents |-> sessionCompleteEvents,
   completeEmits |-> completeEmits, resumedEmits |-> resumedEmits,
   controls |-> controls, stopReply |-> stopReply, log |-> log,
   thenPending |-> FALSE]

SetWorld(w) ==
  /\ now' = w.now
  /\ conversationHistory' = w.conversationHistory
  /\ inbox' = w.inbox
  /\ talkCallCount' = w.talkCallCount
  /\ isComplete' = w.isComplete
  /\ isProcessing' = w.isProcessing
  /\ needsAnotherRun' = w.needsAnotherRun
  /\ textOnlyResponses' = w.textOnlyResponses
  /\ lastActivityTime' = w.lastActivityTime
  /\ inFlight' = w.inFlight
  /\ request' = w.request
  /\ turns' = w.turns
  /\ textNudges' = w.textNudges
  /\ completedAgents' = w.completedAgents
  /\ resolved' = w.resolved
  /\ status' = w.status
  /\ timeoutTimer' = w.timeoutTimer
  /\ seedTimer' = w.seedTimer
  /\ nudgeInterval' = w.nudgeInterval
  /\ nextCheck' = w.nextCheck
  /\ files' = w.files
  /\ dirs' = w.dirs
  /\ locks' = w.locks
  /\ msgSeq' = w.msgSeq
  /\ sessionCompleteEvents' = w.sessionCompleteEvents
  /\ completeEmits' = w.completeEmits
  /\ resumedEmits' = w.resumedEmits
  /\ controls' = w.controls
  /\ stopReply' = w.stopReply
  /\ log' = w.log


\* F applied to the value of v: v is computed once.
Bind(v, F(_)) == CHOOSE r \in {F(x) : x \in {v}} : TRUE

(***************************************************************************)
(* Transcript entries.  role is that of the OpenAI message; calls are the  *)
(* tool_call ids of an assistant entry; id is the tool_call_id of a tool   *)
(* entry (or the identity of the inbox message a user entry was read       *)
(* from); tag tells what the content is.                                   *)
(***************************************************************************)
AssistantEntry(ids) == [role |-> "assistant", calls |-> ids, id |-> 0, tag |-> "tool_calls"]
ToolEntry(callId, tag) == [role |-> "tool", calls |-> <<>>, id |-> callId, tag |-> tag]
UserEntry(tag, msgId) == [role |-> "user", calls |-> <<>>, id |-> msgId, tag |-> tag]
SystemEntry(tag, callId) == [role |-> "system", calls |-> <<>>, id |-> callId, tag |-> tag]

Range(s) == {s[i] : i \in 1..Len(s)}

\* Array.prototype.splice(k, 0, e): e is put after the first k elements.
Splice(h, k, e) == SubSeq(h, 1, k) \o <<e>> \o SubSeq(h, k + 1, Len(h))

\* The scan of lines 959-967 from position j: the tool entries that answer
\* one of `ids`, up to the next assistant entry.
RECURSIVE CountToolResponses(_, _, _)
CountToolResponses(h, j, ids) ==
  IF j > Len(h) THEN 0
  ELSE IF h[j].role = "tool" /\ h[j].id # 0 /\ h[j].id \in ids
       THEN 1 + CountToolResponses(h, j + 1, ids)
       ELSE IF h[j].role = "assistant" THEN 0
            ELSE CountToolResponses(h, j + 1, ids)

\* The number of entries that precede the place where the next tool response
\* of the assistant turn with ids `respIds` is spliced in.
getToolResponseInsertionIndex(h, respIds) ==
  LET found == {i \in 1..Len(h) :
                  /\ h[i].role = "assistant"
                  /\ Range(h[i].calls) \cap respIds # {}}
  IN IF found = {} THEN Len(h)
     ELSE LET idx == CHOOSE i \in found : \A j \in found : j <= i
          IN idx + CountToolResponses(h, idx + 1, Range(h[idx].calls))

InsertToolResponse(h, respIds, callId, tag) ==
  Splice(h, getToolResponseInsertionIndex(h, respIds), ToolEntry(callId, tag))

(***************************************************************************)
(* _buildMessages, lines 489-554: every assistant entry is checked, oldest *)
(* first, against the tool entries that lie between it and the next        *)
(* assistant entry; a missing response is put right after the assistant    *)
(* entry, in the messages and in the transcript.                           *)
(***************************************************************************)
RECURSIVE NextAssistant(_, _)
NextAssistant(h, j) ==
  IF j > Len(h) THEN Len(h) + 1
  ELSE IF h[j].role = "assistant" /\ Len(h[j].calls) > 0 THEN j
       ELSE NextAssistant(h, j + 1)

SynthFor(ids) == [k \in 1..Len(ids) |-> ToolEntry(ids[k], "not_processed")]

RECURSIVE RepairFrom(_, _)
RepairFrom(h, i) ==
  IF i > Len(h) THEN h
  ELSE IF h[i].role = "assistant" /\ Len(h[i].calls) > 0
       THEN LET nxt == NextAssistant(h, i + 1)
                have == {h[j].id : j \in {k \in (i + 1)..(nxt - 1) :
                                            h[k].role = "tool" /\ h[k].id # 0}}
                missing == SelectSeq(h[i].calls, LAMBDA c : c \notin have)
            IN Bind(SubSeq(h, 1, i) \o SynthFor(missing)
                      \o SubSeq(h, i + 1, Len(h)),
                    LAMBDA g : RepairFrom(g, i + 1))
       ELSE RepairFrom(h, i + 1)

RepairHistory(h) == RepairFrom(h, 1)

\* The messages array: system prompt, transcript, inbox notice (556-561).
BuildMessagesOf(h, box) ==
  <<SystemEntry("prompt", 0)>> \o h
    \o (IF Len(box) > 0 THEN <<SystemEntry("inbox_notice", 0)>> ELSE <<>>)

(***************************************************************************)
(* Strings of file contents are sequences of characters.                   *)
(***************************************************************************)
IsPrefixAt(s, t, i) ==
  /\ i + Len(t) - 1 <= Len(s)
  /\ \A k \in 1..Len(t) : s[i + k - 1] = t[k]

\* String.prototype.includes
Includes(s, t) == \E i \in 1..(Len(s) + 1) : IsPrefixAt(s, t, i)

FirstIndex(s, t) == CHOOSE i \in 1..(Len(s) + 1) :
                      /\ IsPrefixAt(s, t, i)
                      /\ \A j \in 1..(i - 1) : ~IsPrefixAt(s, t, j)

\* The replacement text of String.prototype.replace with a string pattern:
\* "$$" stands for "$" and "$&" for the matched text.
RECURSIVE ExpandReplacement(_, _)
ExpandReplacement(new, matched) ==
  IF Len(new) = 0 THEN <<>>
  ELSE IF Len(new) >= 2 /\ new[1] = "$" /\ new[2] = "$"
       THEN <<"$">> \o ExpandReplacement(SubSeq(new, 3, Len(new)), matched)
       ELSE IF Len(new) >= 2 /\ new[1] = "$" /\ new[2] = "&"
            THEN matched \o ExpandReplacement(SubSeq(new, 3, Len(new)), matched)
            ELSE <<new[1]>> \o ExpandReplacement(SubSeq(new, 2, Len(new)), matched)

\* content.replace(oldStr, newStr), oldStr a substring of content.
ReplaceFirst(s, old, new) ==
  LET i == FirstIndex(s, old)
  IN SubSeq(s, 1, i - 1) \o ExpandReplacement(new, old)
       \o SubSeq(s, i + Len(old), Len(s))

(***************************************************************************)
(* Names of files and directories.  Chars gives the code units of a name   *)
(* of the model, by which strings are compared.                            *)
(***************************************************************************)
Chars(name) ==
  CASE name = "app" -> <<97, 112, 112>>
    [] name = "app.js" -> <<97, 112, 112, 46, 106, 115>>
    [] name = "b.js" -> <<98, 46, 106, 115>>
    [] name = "lib" -> <<108, 105, 98>>
    [] name = "x.js" -> <<120, 46, 106, 115>>
    [] name = "etc" -> <<101, 116, 99>>
    [] name = "passwd" -> <<112, 97, 115, 115, 119, 100>>
    [] name = "tmp" -> <<116, 109, 112>>
    [] name = "project" -> <<112, 114, 111, 106, 101, 99, 116>>
    [] name = "project-evil" ->
         <<112, 114, 111, 106, 101, 99, 116, 45, 101, 118, 105, 108>>

\* s < t for two strings given by their code units.
RECURSIVE CodeLess(_, _)
CodeLess(s, t) ==
  IF Len(t) = 0 THEN FALSE
  ELSE IF Len(s) = 0 THEN TRUE
  ELSE IF s[1] # t[1] THEN s[1] < t[1]
  ELSE CodeLess(Tail(s), Tail(t))

\* The names of a set, smallest first.
RECURSIVE SortNames(_)
SortNames(S) ==
  IF S = {} THEN <<>>
  ELSE LET m == CHOOSE x \in S :
                  \A y \in S \ {x} : CodeLess(Chars(x), Chars(y))
       IN <<m>> \o SortNames(S \ {m})

\* The string that path.join makes of the names: they are joined by "/".
RECURSIVE PathString(_)
PathString(rel) ==
  IF Len(rel) = 0 THEN <<>>
  ELSE IF Len(rel) = 1 THEN Chars(rel[1])
  ELSE Chars(rel[1]) \o <<47>> \o PathString(Tail(rel))

(***************************************************************************)
(* Paths are sequences of segments; a leading "/" segment makes a path     *)
(* absolute.  PROJECT_WORKSPACE is /tmp/project.                           *)
(***************************************************************************)
PROJECT_WORKSPACE == <<"tmp", "project">>

\* path.resolve: "." is dropped, ".." drops the segment before it.
RECURSIVE Normalize(_, _)
Normalize(done, rest) ==
  IF Len(rest) = 0 THEN done
  ELSE IF rest[1] = "." THEN Normalize(done, Tail(rest))
       ELSE IF rest[1] = ".."
            THEN Normalize(IF Len(done) = 0 THEN done
                           ELSE SubSeq(done, 1, Len(done) - 1), Tail(rest))
            ELSE Normalize(Append(done, rest[1]), Tail(rest))

Resolve(filePath) ==
  IF Len(filePath) > 0 /\ filePath[1] = "/"
  THEN Normalize(<<>>, Tail(filePath))
  ELSE Normalize(PROJECT_WORKSPACE, filePath)

\* The segment names of the model that begin with the text "project".
BeginsWithProject == {"project", "project-evil"}

\* fullPath.startsWith(PROJECT_WORKSPACE), a comparison of strings.
InsideWorkspace(full) ==
  /\ Len(full) >= 2
  /\ full[1] = "tmp"
  /\ full[2] \in BeginsWithProject

IsProperPrefix(a, b) == Len(a) < Len(b) /\ SubSeq(b, 1, Len(a)) = a

Ancestors(full) == {SubSeq(full, 1, k) : k \in 0..(Len(full) - 1)}

existsSync(w, full) == full \in DOMAIN w.files \/ full \in w.dirs

PutFile(fs, full, content) ==
  [x \in DOMAIN fs \cup {full} |-> IF x = full THEN content ELSE fs[x]]

DropKey(f, k) == [x \in DOMAIN f \ {k} |-> f[x]]

(***************************************************************************)
(* FileLockManager.  Each operator yields the new state and the result.    *)
(***************************************************************************)
\* acquireLock as it would be if a lock still held at the very moment of
\* its timeout.
acquireLockInclusive(w, filePath, agentName) ==
  IF /\ filePath \in DOMAIN w.locks
     /\ w.locks[filePath].agent # agentName
     /\ w.now - w.locks[filePath].timestamp <= LOCK_TIMEOUT
  THEN [w |-> w, ok |-> FALSE]
  ELSE [w |-> [w EXCEPT !.locks =
                 PutFile(w.locks, filePath,
                         [agent |-> agentName, timestamp |-> w.now])],
        ok |-> TRUE]

acquireLock(w, filePath, agentName) ==
  IF /\ filePath \in DOMAIN w.locks
     /\ w.locks[filePath].agent # agentName
     /\ w.now - w.locks[filePath].timestamp < LOCK_TIMEOUT
  THEN [w |-> w, ok |-> FALSE]
  ELSE [w |-> [w EXCEPT !.locks =
                 PutFile(w.locks, filePath,
                         [agent |-> agentName, timestamp |-> w.now])],
        ok |-> TRUE]

releaseLock(w, filePath, agentName) ==
  IF filePath \in DOMAIN w.locks /\ w.locks[filePath].agent = agentName
  THEN [w |-> [w EXCEPT !.locks = DropKey(w.locks, filePath)], ok |-> TRUE]
  ELSE [w |-> w, ok |-> FALSE]

getLockOwner(w, filePath) ==
  IF filePath \notin DOMAIN w.locks THEN [w |-> w, owner |-> "null"]
  ELSE IF w.now - w.locks[filePath].timestamp > LOCK_TIMEOUT
       THEN [w |-> [w EXCEPT !.locks = DropKey(w.locks, filePath)],
             owner |-> "null"]
       ELSE [w |-> w, owner |-> w.locks[filePath].agent]

(***************************************************************************)
(* FileSystemTools.  A result is [w, ok, val]: val is the returned value,  *)
(* or the kind of the Error that was thrown.                               *)
(***************************************************************************)
Thrown(w, kind) == [w |-> w, ok |-> FALSE, val |-> kind]
Returned(w, v) == [w |-> w, ok |-> TRUE, val |-> v]

_validatePath(filePath) ==
  IF InsideWorkspace(Resolve(filePath))
  THEN [ok |-> TRUE, full |-> Resolve(filePath)]
  ELSE [ok |-> FALSE, full |-> <<>>]

\* createFile as it would be if it released the lock only after a write
\* that succeeded.
createFileNoFinally(w, agentName, filePath, content) ==
  LET v == _validatePath(filePath) IN
  IF ~v.ok THEN Thrown(w, "AccessDenied")
  ELSE IF existsSync(w, v.full) THEN Thrown(w, "AlreadyExists")
  ELSE LET a == acquireLock(w, filePath, agentName) IN
       IF ~a.ok THEN Thrown(getLockOwner(a.w, filePath).w, "Locked")
       ELSE IF \E d \in Ancestors(v.full) : d \in DOMAIN a.w.files
            THEN Thrown(a.w, "IOError")
            ELSE LET w1 == [a.w EXCEPT
                              !.dirs = @ \cup Ancestors(v.full),
                              !.files = PutFile(@, v.full, content)]
                 IN Returned(releaseLock(w1, filePath, agentName).w, "created")

\* createFile as it would be without its test of existsSync.
createFileOverwrite(w, agentName, filePath, content) ==
  LET v == _validatePath(filePath) IN
  IF ~v.ok THEN Thrown(w, "AccessDenied")
  ELSE LET a == acquireLock(w, filePath, agentName) IN
       IF ~a.ok THEN Thrown(getLockOwner(a.w, filePath).w, "Locked")
       ELSE IF \E d \in Ancestors(v.full) : d \in DOMAIN a.w.files
            THEN Thrown(releaseLock(a.w, filePath, agentName).w, "IOError")
            ELSE LET w1 == [a.w EXCEPT
                              !.dirs = @ \cup Ancestors(v.full),
                              !.files = PutFile(@, v.full, content)]
                 IN Returned(releaseLock(w1, filePath, agentName).w, "created")

createFile(w, agentName, filePath, content) ==
  LET v == _validatePath(filePath) IN
  IF ~v.ok THEN Thrown(w, "AccessDenied")
  ELSE IF existsSync(w, v.full) THEN Thrown(w, "AlreadyExists")
  ELSE LET a == acquireLock(w, filePath, agentName) IN
       IF ~a.ok THEN Thrown(getLockOwner(a.w, filePath).w, "Locked")
       ELSE IF \E d \in Ancestors(v.full) : d \in DOMAIN a.w.files
            \* mkdirSync or writeFileSync fails below a regular file
            THEN Thrown(releaseLock(a.w, filePath, agentName).w, "IOError")
            ELSE LET w1 == [a.w EXCEPT
                              !.dirs = @ \cup Ancestors(v.full),
                              !.files = PutFile(@, v.full, content)]
                 IN Returned(releaseLock(w1, filePath, agentName).w, "created")

readFile(w, filePath) ==
  LET v == _validatePath(filePath) IN
  IF ~v.ok THEN Thrown(w, "AccessDenied")
  ELSE IF ~existsSync(w, v.full) THEN Thrown(w, "NotFound")
  ELSE IF v.full \in w.dirs THEN Thrown(w, "IOError")
  ELSE Returned(w, w.files[v.full])

strReplace(w, agentName, filePath, oldStr, newStr) ==
  LET v == _validatePath(filePath) IN
  IF ~v.ok THEN Thrown(w, "AccessDenied")
  ELSE LET a == acquireLock(w, filePath, agentName) IN
       IF ~a.ok THEN Thrown(getLockOwner(a.w, filePath).w, "Locked")
       ELSE LET rel == releaseLock(a.w, filePath, agentName).w IN
            IF ~existsSync(a.w, v.full) THEN Thrown(rel, "NotFound")
            ELSE IF v.full \in a.w.dirs THEN Thrown(rel, "IOError")
            ELSE IF ~Includes(a.w.files[v.full], oldStr) THEN Thrown(rel, "NoMatch")
            ELSE LET w1 == [a.w EXCEPT !.files =
                              PutFile(@, v.full,
                                      ReplaceFirst(a.w.files[v.full], oldStr, newStr))]
                 IN Returned(releaseLock(w1, filePath, agentName).w, "modified")

\* readdirSync(dir): the names of the entries of dir.  scandir of libuv
\* sorts them with strcmp.
readdirSync(w, dir) ==
  SortNames({e[Len(dir) + 1] :
               e \in {g \in DOMAIN w.files \cup w.dirs :
                        Len(g) = Len(dir) + 1 /\ SubSeq(g, 1, Len(dir)) = dir}})

\* The helper getFiles of listFiles: the loop over the entries `names` of
\* dir, and the call for a directory.  A relative path is the sequence of
\* the names that path.join joins.
RECURSIVE getFilesLoop(_, _, _, _)
getFilesLoop(w, dir, relativeDir, names) ==
  IF Len(names) = 0 THEN <<>>
  ELSE LET name == Head(names)
           rest == getFilesLoop(w, dir, relativeDir, Tail(names))
       IN IF Append(dir, name) \in w.dirs
          THEN getFilesLoop(w, Append(dir, name), Append(relativeDir, name),
                            readdirSync(w, Append(dir, name))) \o rest
          ELSE <<Append(relativeDir, name)>> \o rest

getFiles(w, dir, relativeDir) ==
  getFilesLoop(w, dir, relativeDir, readdirSync(w, dir))

listFiles(w, dirPath) ==
  LET v == _validatePath(dirPath) IN
  IF ~v.ok THEN Thrown(w, "AccessDenied")
  ELSE IF ~existsSync(w, v.full) THEN Returned(w, <<>>)
  \* readdirSync of a regular file fails
  ELSE IF v.full \in DOMAIN w.files THEN Thrown(w, "IOError")
  ELSE Returned(w, getFiles(w, v.full, <<>>))

deleteFile(w, agentName, filePath) ==
  LET v == _validatePath(filePath) IN
  IF ~v.ok THEN Thrown(w, "AccessDenied")
  ELSE LET a == acquireLock(w, filePath, agentName) IN
       IF ~a.ok THEN Thrown(getLockOwner(a.w, filePath).w, "Locked")
       ELSE LET rel == releaseLock(a.w, filePath, agentName).w IN
            IF ~existsSync(a.w, v.full) THEN Thrown(rel, "NotFound")
            ELSE IF v.full \in a.w.dirs THEN Thrown(rel, "IsDirectory")
            ELSE Returned([rel EXCEPT !.files = DropKey(@, v.full)], "deleted")


(***************************************************************************)
(* The supervisor's listeners and the conversationComplete promise.        *)
(***************************************************************************)
\* resolve as it would be if a later call overwrote the outcome and reacted
\* again.
resolveAgain(w, result) ==
  [w EXCEPT !.resolved = result, !.thenPending = TRUE]

\* resolve(result) of the promise: only the first call settles it, and it
\* queues the reaction registered by conversationComplete.then.
resolve(w, result) ==
  IF w.resolved = "pending"
  THEN [w EXCEPT !.resolved = result, !.thenPending = TRUE]
  ELSE w

\* checkComplete as it would be if it counted completion signals instead of
\* completed agents.
checkCompleteBySignals(w) ==
  IF w.completeEmits["backend"] + w.completeEmits["devops"]
       + w.completeEmits["frontend"] >= AGENT_COUNT
  THEN resolve([w EXCEPT !.timeoutTimer = FALSE], "complete")
  ELSE w

checkComplete(w) ==
  IF Cardinality(w.completedAgents) >= AGENT_COUNT
  THEN resolve([w EXCEPT !.timeoutTimer = FALSE], "complete")
  ELSE w

\* The two listeners of agent:complete, in the order they were registered.
onAgentComplete(w, agentName) ==
  checkComplete([w EXCEPT !.completedAgents = @ \cup {agentName}])

\* The listener of agent:resumed as it would be if it left the set alone.
onAgentResumedKeep(w, agentName) == w

onAgentResumed(w, agentName) ==
  [w EXCEPT !.completedAgents = @ \ {agentName}]

\* The reaction of conversationComplete.then.
thenCallback(w) ==
  [w EXCEPT !.nudgeInterval = FALSE,
            !.sessionCompleteEvents = @ + 1,
            !.status = w.resolved,
            !.thenPending = FALSE]

\* The microtasks queued so far are run.
Drain(w) == IF w.thenPending THEN thenCallback(w) ELSE w

(***************************************************************************)
(* Agent.                                                                  *)
(***************************************************************************)
updateActivity(w, a) == [w EXCEPT !.lastActivityTime[a] = w.now]

getIdleTime(w, a) == w.now - w.lastActivityTime[a]

complete(w, a) ==
  IF w.isComplete[a] THEN w
  ELSE onAgentComplete([w EXCEPT !.isComplete[a] = TRUE,
                                 !.completeEmits[a] = @ + 1], a)

\* _resumeFromCompletion as it would be if it reset the text-only streak.
_resumeFromCompletionReset(w, a) ==
  IF ~w.isComplete[a] THEN w
  ELSE onAgentResumed([w EXCEPT !.isComplete[a] = FALSE,
                                !.textOnlyResponses[a] = 0,
                                !.resumedEmits[a] = @ + 1], a)

_resumeFromCompletion(w, a) ==
  IF ~w.isComplete[a] THEN w
  ELSE onAgentResumed([w EXCEPT !.isComplete[a] = FALSE,
                                !.resumedEmits[a] = @ + 1], a)

_queueMessage(w, a, message) ==
  [w EXCEPT !.inbox[a] = Append(@, message)]

\* _buildMessages: the repaired transcript and the messages array.
_buildMessages(h, box) ==
  Bind(RepairHistory(h), LAMBDA r :
    [history |-> r, messages |-> BuildMessagesOf(r, box)])

\* The final verification of lines 857-898, on the messages array alone.
FinalCheck(messages) == RepairHistory(messages)

\* The start of a turn as it would be without the test of the talk budget.
TurnStartNoBudget(w, a) ==
  IF w.isComplete[a] THEN [w |-> w, suspended |-> FALSE]
  ELSE Bind(_buildMessages(w.conversationHistory[a], w.inbox[a]), LAMBDA b :
         [w |-> [w EXCEPT
                   !.conversationHistory[a] = b.history,
                   !.request[a] = FinalCheck(b.messages),
                   !.inFlight[a] = @ + 1,
                   !.turns[a] = @ + 1,
                   !.log.turnAfterStop =
                      @ \/ w.resolved = "stopped_by_user",
                   !.log.pendingTrigger[a] = FALSE,
                   !.log.callTime[a] = w.now],
          suspended |-> TRUE])

\* _executeAgentTurn up to its await of the completion service.  suspended
\* tells whether the call was made; otherwise the turn has returned.
TurnStart(w, a) ==
  IF w.isComplete[a] THEN [w |-> w, suspended |-> FALSE]
  ELSE IF w.talkCallCount[a] >= maxTalkCalls
       THEN [w |-> complete(w, a), suspended |-> FALSE]
       ELSE Bind(_buildMessages(w.conversationHistory[a], w.inbox[a]), LAMBDA b :
              [w |-> [w EXCEPT
                        !.conversationHistory[a] = b.history,
                        !.request[a] = FinalCheck(b.messages),
                        !.inFlight[a] = @ + 1,
                        !.turns[a] = @ + 1,
                        !.log.turnAfterStop =
                           @ \/ w.resolved = "stopped_by_user",
                        !.log.pendingTrigger[a] = FALSE,
                        !.log.callTime[a] = w.now],
               suspended |-> TRUE])

\* The while loop of _processQueue, from its test on.
RECURSIVE ProcessLoop(_, _)
ProcessLoop(w, a) ==
  IF w.needsAnotherRun[a] /\ ~w.isComplete[a]
  THEN Bind(TurnStart([w EXCEPT !.needsAnotherRun[a] = FALSE], a), LAMBDA t :
         IF t.suspended THEN t.w ELSE ProcessLoop(t.w, a))
  ELSE [w EXCEPT !.isProcessing[a] = FALSE]

\* _processQueue without its re-entrancy guard.
_processQueueUnguarded(w, a) ==
  ProcessLoop([w EXCEPT !.isProcessing[a] = TRUE], a)

_processQueue(w, a) ==
  IF w.isProcessing[a] THEN w
  ELSE ProcessLoop([w EXCEPT !.isProcessing[a] = TRUE], a)

_deliverMessageImmediately(w, a, message) ==
  IF message.autoRun
  THEN _processQueue([w EXCEPT !.conversationHistory[a] =
                                  Append(@, UserEntry(message.tag, 0)),
                               !.needsAnotherRun[a] = TRUE], a)
  ELSE [w EXCEPT !.conversationHistory[a] = Append(@, UserEntry(message.tag, 0))]

\* A trigger that arrives while a turn of the agent is in flight is noted.
NoteTrigger(w, a) ==
  IF w.inFlight[a] > 0 THEN [w EXCEPT !.log.pendingTrigger[a] = TRUE] ELSE w

\* The delivery as it would be if a queued message never reactivated the
\* agent.
DeliverNoResume(w, a, message) ==
  IF message.queue
  THEN _queueMessage(w, a, message)
  ELSE _deliverMessageImmediately(w, a, message)

\* An immediate message that arrives at a Complete agent is noted, with the
\* agent's counts of turns and of resumed signals at that moment.
NoteImmediate(w, a, message) ==
  IF ~message.queue /\ w.isComplete[a]
  THEN [w EXCEPT !.log.metComplete[a] =
          [met |-> TRUE, turns |-> w.turns[a], resumed |-> w.resumedEmits[a]]]
  ELSE w

\* The identity of a message that is queued for agent a is noted in
\* log.queued.
NoteQueued(w, a, message) ==
  IF message.queue THEN [w EXCEPT !.log.queued[a] = @ \cup {message.id}] ELSE w

\* Lines 625-632 and 636-638: what handleMessage does with the message.
Deliver(w, a, message) ==
  IF message.queue
  THEN IF w.isComplete[a]
       THEN _resumeFromCompletion(_queueMessage(w, a, message), a)
       ELSE _queueMessage(w, a, message)
  ELSE _deliverMessageImmediately(w, a, message)

\* handleMessage as it would be if it set the flag and left the loop alone.
handleMessageNoRun(w, a, message) ==
  Bind(NoteImmediate(NoteTrigger(updateActivity(w, a), a), a, message), LAMBDA w0 :
    Bind(Deliver(w0, a, message), LAMBDA w1 :
      [w1 EXCEPT !.needsAnotherRun[a] = TRUE]))

handleMessage(w, a, message) ==
  Bind(NoteImmediate(NoteTrigger(updateActivity(w, a), a), a, message), LAMBDA w0 :
    Bind(Deliver(NoteQueued(w0, a, message), a, message), LAMBDA w1 :
      _processQueue([w1 EXCEPT !.needsAnotherRun[a] = TRUE], a)))

\* EventEmitter.emit('message:<name>'): only agents listen.
emitMessage(w, name, message) ==
  IF name \in Agents THEN handleMessage(w, name, message) ELSE w

SystemMessage(tag, autoRun) ==
  [from |-> "system", queue |-> FALSE, autoRun |-> autoRun, tag |-> tag, id |-> 0]

\* talk as it would be if the bus delivered the message later, in a
\* callback of its own.
talkDeferred(w, a, agentName) ==
  IF w.talkCallCount[a] >= maxTalkCalls
  THEN [w |-> w, val |-> "cannot_talk"]
  ELSE Bind([w EXCEPT !.talkCallCount[a] = @ + 1, !.msgSeq = @ + 1],
            LAMBDA w2 :
              [w |-> IF w2.talkCallCount[a] >= maxTalkCalls
                     THEN complete(w2, a) ELSE w2,
               val |-> "sent"])

\* talk as it would be without the test of its first line.
talkUnlimited(w, a, agentName) ==
  Bind(emitMessage([w EXCEPT !.talkCallCount[a] = @ + 1, !.msgSeq = @ + 1],
                   agentName,
                   [from |-> a, queue |-> TRUE, autoRun |-> FALSE,
                    tag |-> "talk", id |-> w.msgSeq + 1]),
       LAMBDA w2 :
         [w |-> IF w2.talkCallCount[a] >= maxTalkCalls
                THEN complete(w2, a) ELSE w2,
          val |-> "sent"])

talk(w, a, agentName) ==
  IF w.talkCallCount[a] >= maxTalkCalls
  THEN [w |-> w, val |-> "cannot_talk"]
  ELSE Bind(emitMessage([w EXCEPT !.talkCallCount[a] = @ + 1, !.msgSeq = @ + 1],
                        agentName,
                        [from |-> a, queue |-> TRUE, autoRun |-> FALSE,
                         tag |-> "talk", id |-> w.msgSeq + 1]),
            LAMBDA w2 :
              [w |-> IF w2.talkCallCount[a] >= maxTalkCalls
                     THEN complete(w2, a) ELSE w2,
               val |-> "sent"])

\* The read as it would be if it left the message in the inbox.
_readNextInboxMessagePeek(w, a) ==
  IF Len(w.inbox[a]) = 0 THEN [w |-> w, messageRead |-> FALSE]
  ELSE [w |-> [w EXCEPT
                 !.conversationHistory[a] =
                    Append(@, UserEntry("inbox", w.inbox[a][Len(w.inbox[a])].id))],
        messageRead |-> TRUE]

\* The read as it would be if it took the oldest message (shift).
_readNextInboxMessageFifo(w, a) ==
  IF Len(w.inbox[a]) = 0 THEN [w |-> w, messageRead |-> FALSE]
  ELSE [w |-> [w EXCEPT
                 !.inbox[a] = Tail(@),
                 !.conversationHistory[a] =
                    Append(@, UserEntry("inbox", w.inbox[a][1].id))],
        messageRead |-> TRUE]

_readNextInboxMessage(w, a) ==
  IF Len(w.inbox[a]) = 0 THEN [w |-> w, messageRead |-> FALSE]
  ELSE [w |-> [w EXCEPT
                 !.inbox[a] = SubSeq(@, 1, Len(@) - 1),
                 !.conversationHistory[a] =
                    Append(@, UserEntry("inbox", w.inbox[a][Len(w.inbox[a])].id))],
        messageRead |-> TRUE]


(***************************************************************************)
(* The tool loop of _executeAgentTurn, lines 984-1326.  A tool call is     *)
(* [id, name, arg, target, path, content, old, new]; arg tells what        *)
(* JSON.parse makes of the arguments: an object ("ok"), a SyntaxError      *)
(* ("badjson"), or null ("null"), on which _sanitizeArgs throws.           *)
(* The loop state is [w, processed, deferred, threw].                      *)
(***************************************************************************)
CallIds(calls) == {calls[i].id : i \in 1..Len(calls)}

(***************************************************************************)
(* The text of a tool result that reports an Error, as a sequence of       *)
(* words.  `text` is what the agent supplied and the message repeats: the  *)
(* path of the call, or its search string.  "<owner>" stands for the name  *)
(* of the owner of a lock.                                                 *)
(***************************************************************************)
\* error.message of the Error of each kind (lines 87, 98-103, 109, 129,
\* 146, 151, 199, 205; an I/O error carries the message of fs).
ErrorMessageOf(kind, text) ==
  CASE kind = "AccessDenied" ->
         <<"Access", "denied", ":", "Path", "must", "be", "within", "/tmp/project">>
    [] kind = "AlreadyExists" ->
         <<"File", "\"">> \o text \o
         <<"\"", "already", "exists", ".", "To", "modify", "an",
           "existing", "file", ",", "you", "must", ":",
           "1.", "Use", "read_file", "(", "\"">> \o text \o
         <<"\"", ")", "to", "read", "the", "current", "content",
           "2.", "Use", "str_replace", "(", "\"">> \o text \o
         <<"\"", ",", "old_string", ",", "new_string", ")", "to", "make", "changes",
           "The", "create_file", "function", "can", "only", "be", "used", "to",
           "create", "NEW", "files">>
    [] kind = "Locked" -> <<"File", "is", "locked", "by", "<owner>">>
    [] kind = "NotFound" -> <<"File", "not", "found", ":">> \o text
    [] kind = "NoMatch" ->
         <<"String", "not", "found", "in", "file", ":">> \o text
    [] kind = "IsDirectory" ->
         <<"Cannot", "delete", "directory", ":">> \o text
           \o <<".", "Use", "file", "path", "only", ".">>
    [] OTHER -> <<"EISDIR", ":", "illegal", "operation", "on", "a", "directory">>

\* The message for the path app.js.
ErrorMessage(kind) == ErrorMessageOf(kind, <<"app.js">>)

\* The guidance that _getErrorGuidance holds for each kind of Error.
Guidance(kind, functionName) ==
  CASE kind = "AlreadyExists" ->
         <<"The", "file", "you", "tried", "to", "create", "already", "exists", ".",
           "Use", "str_replace", "to", "modify", "it">>
    [] kind = "NotFound" ->
         IF functionName = "delete_file"
         THEN <<"The", "file", "does", "not", "exist", ".", "Use", "list_files",
                "before", "deleting">>
         ELSE <<"The", "file", "does", "not", "exist", ".", "Use", "create_file",
                "to", "create", "it", "first">>
    [] kind = "Locked" ->
         <<"Another", "agent", "is", "currently", "modifying", "this", "file">>
    [] kind = "NoMatch" ->
         <<"The", "old_string", "was", "not", "found", ".", "Use", "read_file">>
    [] kind = "IsDirectory" ->
         <<"You", "tried", "to", "delete", "a", "directory">>
    [] kind = "AccessDenied" ->
         <<"The", "path", "is", "outside", "the", "allowed", "workspace">>
    [] OTHER ->
         <<"Check", "the", "error", "message", "and", "try", "a", "different",
           "approach">>

_getErrorGuidance(functionName, errorMessage) ==
  IF Includes(errorMessage, <<"File", "already", "exists">>)
  THEN Guidance("AlreadyExists", functionName)
  ELSE IF Includes(errorMessage, <<"File", "not", "found">>)
  THEN Guidance("NotFound", functionName)
  ELSE IF Includes(errorMessage, <<"locked", "by">>)
  THEN Guidance("Locked", functionName)
  ELSE IF Includes(errorMessage, <<"String", "not", "found">>)
  THEN Guidance("NoMatch", functionName)
  ELSE IF Includes(errorMessage, <<"Cannot", "delete", "directory">>)
  THEN Guidance("IsDirectory", functionName)
  ELSE IF Includes(errorMessage, <<"Access", "denied">>)
  THEN Guidance("AccessDenied", functionName)
  ELSE Guidance("generic", functionName)

\* The content of the tool entry written by the catch of line 1253.
ErrorContent(functionName, kind) ==
  <<"ERROR", ":">> \o ErrorMessage(kind) \o <<"What", "went", "wrong", ":">>
    \o _getErrorGuidance(functionName, ErrorMessage(kind))

Respond1(st, a, ids, c, tag) ==
  [st EXCEPT !.w.conversationHistory[a] = InsertToolResponse(@, ids, c.id, tag),
             !.processed = @ \cup {c.id}]

Defer(st, c, tag) == [st EXCEPT !.deferred = Append(@, SystemEntry(tag, c.id))]

\* The branch of a file tool as it would be if the Error thrown by the tool
\* escaped the loop.
FileBranchRethrow(st, a, ids, c, r, okTag) ==
  IF r.ok
  THEN Defer(Respond1([st EXCEPT !.w = r.w], a, ids, c, okTag), c, "succeeded")
  ELSE [st EXCEPT !.w = r.w, !.threw = TRUE]

\* A branch that calls a FileSystemTools method r and splices its result in;
\* a thrown Error is answered by the catch of line 1253.
FileBranch(st, a, ids, c, r, okTag) ==
  IF r.ok
  THEN Defer(Respond1([st EXCEPT !.w = r.w], a, ids, c, okTag), c, "succeeded")
  ELSE Respond1([st EXCEPT !.w = r.w], a, ids, c, r.val)

\* The list_files branch pushes its result at the end of the transcript.
ListBranch(st, a, ids, c, r) ==
  IF r.ok
  THEN Defer([st EXCEPT !.w.conversationHistory[a] =
                           Append(@, ToolEntry(c.id, "listed")),
                        !.processed = @ \cup {c.id}], c, "succeeded")
  ELSE Respond1([st EXCEPT !.w = r.w], a, ids, c, r.val)

\* What holds when talk has returned r and its tool result is not yet
\* spliced in (w0 is the state in which talk was called): whether the
\* message lies in the inbox of the target, whether the target was Complete
\* at the call and has emitted a resumed signal since, whether it is in the
\* supervisor's set and Complete now, whether its talk budget is not spent,
\* and whether the sender's transcript holds a tool result of the call.
NoteTalk(w0, r, a, c) ==
  [r.w EXCEPT !.log.lastTalk =
     [published |-> r.val = "sent",
      target |-> c.target,
      wasComplete |-> w0.isComplete[c.target],
      inInbox |-> \E i \in 1..Len(r.w.inbox[c.target]) :
                    /\ r.w.inbox[c.target][i].id = w0.msgSeq + 1
                    /\ r.w.inbox[c.target][i].from = a,
      resumed |-> r.w.resumedEmits[c.target] = w0.resumedEmits[c.target] + 1,
      inSet |-> c.target \in r.w.completedAgents,
      complete |-> r.w.isComplete[c.target],
      withinBudget |-> r.w.talkCallCount[c.target] < maxTalkCalls,
      answered |-> \E j \in 1..Len(r.w.conversationHistory[a]) :
                     /\ r.w.conversationHistory[a][j].role = "tool"
                     /\ r.w.conversationHistory[a][j].id = c.id]]

TalkBranch(st, a, ids, c) ==
  Bind(talk(st.w, a, c.target), LAMBDA r :
    Defer(Respond1([st EXCEPT !.w = Drain(NoteTalk(st.w, r, a, c))],
                   a, ids, c, r.val),
          c, "succeeded"))

ReadMessageBranch(st, a, ids, c) ==
  Bind(_readNextInboxMessage(st.w, a), LAMBDA d :
    IF d.messageRead
    THEN Defer(Respond1([st EXCEPT !.w = [d.w EXCEPT !.needsAnotherRun[a] = TRUE]],
                        a, ids, c, "message_read"),
               c, "succeeded")
    ELSE Respond1(st, a, ids, c, "inbox_empty"))

\* The Error that the file tool called for c threw is noted in log.thrown,
\* with the id of the call.
NoteThrown(r, c) ==
  IF r.ok THEN r ELSE [r EXCEPT !.w.log.thrown = @ \cup {<<c.id, r.val>>}]

\* The Error thrown for the arguments of call c of agent a is noted in
\* log.thrown.
NoteArguments(st, a, c, kind) ==
  [st EXCEPT !.w.log.thrown = @ \cup {<<c.id, kind, a>>}]

\* One iteration of the loop of line 984.  The result r of a file tool is
\* computed once and handed to the branch.  Arguments that are not JSON make
\* JSON.parse throw a SyntaxError, which the catch of line 993 answers; the
\* arguments "null" are parsed to null, and _sanitizeArgs(null) throws a
\* TypeError at clone[key], outside the try of the branches.
ToolStep(st, a, ids, c) ==
  IF c.arg = "badjson"
  THEN Respond1(NoteArguments(st, a, c, "SyntaxError"), a, ids, c, "json_error")
  ELSE IF c.arg = "null"
       THEN [NoteArguments(st, a, c, "TypeError") EXCEPT !.threw = TRUE]
  ELSE IF c.name = "talk" THEN TalkBranch(st, a, ids, c)
  ELSE IF c.name = "create_file"
       THEN Bind(NoteThrown(createFile(st.w, a, c.path, c.content), c), LAMBDA r :
              FileBranch(st, a, ids, c, r, "created"))
  ELSE IF c.name = "read_file"
       THEN Bind(NoteThrown(readFile(st.w, c.path), c), LAMBDA r :
              FileBranch(st, a, ids, c, r, "read"))
  ELSE IF c.name = "str_replace"
       THEN Bind(NoteThrown(strReplace(st.w, a, c.path, c.old, c.new), c), LAMBDA r :
              FileBranch(st, a, ids, c, r, "modified"))
  ELSE IF c.name = "list_files"
       THEN Bind(NoteThrown(listFiles(st.w, c.path), c), LAMBDA r : ListBranch(st, a, ids, c, r))
  ELSE IF c.name = "delete_file"
       THEN Bind(NoteThrown(deleteFile(st.w, a, c.path), c), LAMBDA r :
              FileBranch(st, a, ids, c, r, "deleted"))
  ELSE IF c.name = "read_message" THEN ReadMessageBranch(st, a, ids, c)
  ELSE st

\* The loop as it would be if it stopped once the agent is Complete.
RECURSIVE ToolLoopWhileActive(_, _, _, _, _)
ToolLoopWhileActive(st, a, ids, calls, i) ==
  IF i > Len(calls) \/ st.threw \/ st.w.isComplete[a] THEN st
  ELSE Bind(ToolStep(st, a, ids, calls[i]), LAMBDA s :
         ToolLoopWhileActive(s, a, ids, calls, i + 1))

RECURSIVE ToolLoop(_, _, _, _, _)
ToolLoop(st, a, ids, calls, i) ==
  IF i > Len(calls) \/ st.threw THEN st
  ELSE Bind(ToolStep(st, a, ids, calls[i]), LAMBDA s :
         ToolLoop(s, a, ids, calls, i + 1))

\* The safeguard without its test of processedToolCallIds.
RECURSIVE SafeguardAll(_, _, _, _, _)
SafeguardAll(st, a, ids, calls, i) ==
  IF i > Len(calls) THEN st
  ELSE Bind(Respond1(st, a, ids, calls[i], "not_processed"), LAMBDA s :
         SafeguardAll(s, a, ids, calls, i + 1))

\* The safeguard of the finally block, lines 1279-1291.
RECURSIVE Safeguard(_, _, _, _, _)
Safeguard(st, a, ids, calls, i) ==
  IF i > Len(calls) THEN st
  ELSE Bind(IF calls[i].id \in st.processed THEN st
            ELSE Respond1(st, a, ids, calls[i], "not_processed"),
            LAMBDA s : Safeguard(s, a, ids, calls, i + 1))

\* Lines 1295-1311: a call that has no tool entry anywhere in the transcript
\* after the safeguard is answered once more.
ToolIdsOf(h) == {h[j].id : j \in {k \in 1..Len(h) : h[k].role = "tool" /\ h[k].id # 0}}

RECURSIVE VerifyInHistory(_, _, _, _, _, _)
VerifyInHistory(st, a, ids, calls, have, i) ==
  IF i > Len(calls) THEN st
  ELSE Bind(IF calls[i].id \in have THEN st
            ELSE [st EXCEPT !.w.conversationHistory[a] =
                    InsertToolResponse(@, ids, calls[i].id, "not_processed")],
            LAMBDA s : VerifyInHistory(s, a, ids, calls, have, i + 1))

\* Lines 1319-1322: every deferred notice is spliced in at the one index
\* computed before the first of them.
RECURSIVE SpliceAll(_, _, _)
SpliceAll(h, k, msgs) ==
  IF Len(msgs) = 0 THEN h
  ELSE Bind(Splice(h, k, Head(msgs)), LAMBDA g : SpliceAll(g, k, Tail(msgs)))

AddDeferred(st, a, ids) ==
  [st EXCEPT !.w.conversationHistory[a] =
     Bind(getToolResponseInsertionIndex(@, ids), LAMBDA k :
       SpliceAll(@, k, st.deferred))]

Finally(st, a, ids, calls) ==
  Bind(Safeguard(st, a, ids, calls, 1), LAMBDA s1 :
    Bind(ToolIdsOf(s1.w.conversationHistory[a]), LAMBDA have :
      Bind(VerifyInHistory(s1, a, ids, calls, have, 1), LAMBDA s2 :
        AddDeferred(s2, a, ids))))

\* The ids the completion service gives the calls of an agent's k-th
\* assistant turn: no two calls of an agent have the same id.
NumberCalls(h, calls) ==
  LET k == Cardinality({i \in 1..Len(h) : h[i].role = "assistant"}) + 1
  IN [i \in 1..Len(calls) |-> [calls[i] EXCEPT !.id = 100 * k + i]]

\* The tool loop and its finally block, from the state in which the
\* assistant entry has been pushed.
RunTools(w, a, calls) ==
  Bind([w |-> w, processed |-> {}, deferred |-> <<>>, threw |-> FALSE], LAMBDA st0 :
    Bind(ToolLoop(st0, a, CallIds(calls), calls, 1), LAMBDA st1 :
      Finally(st1, a, CallIds(calls), calls)))

\* The branch of line 937: the response holds tool calls.
ToolCallsBranch(w, a, rawCalls) ==
  Bind(NumberCalls(w.conversationHistory[a], rawCalls), LAMBDA calls :
    Bind(RunTools([w EXCEPT
                     !.conversationHistory[a] =
                        Append(@, AssistantEntry([i \in 1..Len(calls) |-> calls[i].id])),
                     !.textOnlyResponses[a] = 0], a, calls),
         LAMBDA st :
           IF st.threw
           \* the outer catch of line 1371; log.fatal counts its runs
           THEN complete([st.w EXCEPT !.log.fatal[a] = @ + 1], a)
           ELSE emitMessage(st.w, a, SystemMessage("selfloop", TRUE))))

\* The text-only branch as it would be if it took three text-only answers
\* to complete the agent.
TextOnlyBranchAt3(w, a) ==
  IF w.textOnlyResponses[a] + 1 >= 3
  THEN complete([w EXCEPT !.textOnlyResponses[a] = @ + 1], a)
  ELSE [w EXCEPT !.textOnlyResponses[a] = @ + 1,
                 !.textNudges[a] = Append(@, w.now + TEXT_NUDGE_DELAY)]

\* The text-only branch as it would be if it pushed the assistant's text.
TextOnlyBranchRecorded(w, a) ==
  Bind([w EXCEPT !.conversationHistory[a] = Append(@, AssistantEntry(<<>>))],
       LAMBDA w1 :
         IF w1.textOnlyResponses[a] + 1 >= 2
         THEN complete([w1 EXCEPT !.textOnlyResponses[a] = @ + 1], a)
         ELSE [w1 EXCEPT !.textOnlyResponses[a] = @ + 1,
                         !.textNudges[a] = Append(@, w1.now + TEXT_NUDGE_DELAY)])

\* The branch of line 1338: a response without tool calls.
TextOnlyBranch(w, a) ==
  IF w.textOnlyResponses[a] + 1 >= 2
  THEN complete([w EXCEPT !.textOnlyResponses[a] = @ + 1], a)
  ELSE [w EXCEPT !.textOnlyResponses[a] = @ + 1,
                 !.textNudges[a] = Append(@, w.now + TEXT_NUDGE_DELAY)]

\* The turn as it would be if a failed call of the completion service were
\* ignored.
TurnResumeIgnoreError(w, a, resp) ==
  Bind(IF resp.kind = "error" THEN w
       ELSE IF resp.kind = "tools" THEN ToolCallsBranch(w, a, resp.calls)
       ELSE TextOnlyBranch(w, a),
       LAMBDA w1 : ProcessLoop([w1 EXCEPT !.inFlight[a] = @ - 1,
                                          !.log.lastTurn[a] = resp.kind], a))

\* _executeAgentTurn from the completion-service response on, and the
\* _processQueue loop that awaited it.  log.lastTurn notes what the turn
\* that ended was: "tools", "text", or "error" (the call failed).
TurnResume(w, a, resp) ==
  Bind(IF resp.kind = "error" THEN complete(w, a)
       ELSE IF resp.kind = "tools" THEN ToolCallsBranch(w, a, resp.calls)
       ELSE TextOnlyBranch(w, a),
       LAMBDA w1 : ProcessLoop([w1 EXCEPT !.inFlight[a] = @ - 1,
                                          !.log.lastTurn[a] = resp.kind], a))


(***************************************************************************)
(* The callbacks of the event loop.                                        *)
(***************************************************************************)
RECURSIVE EmitToAll(_, _, _)
EmitToAll(w, names, message) ==
  IF Len(names) = 0 THEN w
  ELSE Bind(emitMessage(w, Head(names), message), LAMBDA w1 :
         EmitToAll(w1, Tail(names), message))

\* The seed timer of line 1574.
SeedCallback(w) ==
  EmitToAll([w EXCEPT !.seedTimer = FALSE],
            <<"backend", "frontend", "devops">>, SystemMessage("seed", FALSE))

\* The timer callback as it would be if it reported the outcome of a stop.
TimeoutCallbackAsStop(w) ==
  resolve([w EXCEPT !.timeoutTimer = FALSE], "stopped_by_user")

\* The timer of line 1553.
TimeoutCallback(w) == resolve([w EXCEPT !.timeoutTimer = FALSE], "timeout")

\* The body of the loop as it would be without its test of isComplete.
NudgeIfIdleAny(w, a) ==
  IF getIdleTime(w, a) > IDLE_THRESHOLD
  THEN Bind(emitMessage([w EXCEPT !.log.idleNudges = @ + 1], a,
                        SystemMessage("idle_nudge", FALSE)),
            LAMBDA w1 : updateActivity(w1, a))
  ELSE w

\* The body of the loop of line 1517 for one agent.
NudgeIfIdle(w, a) ==
  IF ~w.isComplete[a] /\ getIdleTime(w, a) > IDLE_THRESHOLD
  THEN Bind(emitMessage([w EXCEPT !.log.idleNudges = @ + 1], a,
                        SystemMessage("idle_nudge", FALSE)),
            LAMBDA w1 : updateActivity(w1, a))
  ELSE w

\* The idle watchdog of line 1514.
RECURSIVE NudgeIdle(_, _)
NudgeIdle(w, names) ==
  IF Len(names) = 0 THEN w
  ELSE Bind(NudgeIfIdle(w, Head(names)), LAMBDA w1 : NudgeIdle(w1, Tail(names)))

NudgeIntervalCallback(w) ==
  NudgeIdle([w EXCEPT !.nextCheck = @ + NUDGE_PERIOD], AgentOrder)

\* The timer of line 1351.
\* The callback of the timer of line 1351 as it would be without its test
\* of isComplete.
TextNudgeCallbackAlways(w, a) ==
  emitMessage([w EXCEPT !.textNudges[a] = Tail(@)], a,
              SystemMessage("text_nudge", FALSE))

\* The callback of the timer of line 1351.
TextNudgeCallback(w, a) ==
  IF ~w.isComplete[a]
  THEN emitMessage([w EXCEPT !.textNudges[a] = Tail(@)], a,
                   SystemMessage("text_nudge", FALSE))
  ELSE [w EXCEPT !.textNudges[a] = Tail(@)]

\* POST /stop-conversation.  log.stopWhen tells what the request met: a
\* session that was still active, one already resolved, or an unknown id.
stopConversation(w, conversationId) ==
  LET met == IF conversationId # SessionId THEN "unknown"
             ELSE IF w.resolved = "pending" THEN "active" ELSE "resolved"
  IN IF conversationId \in w.controls
     THEN [resolve([w EXCEPT !.timeoutTimer = FALSE], "stopped_by_user")
             EXCEPT !.stopReply = "stopped", !.log.stopped = TRUE,
                    !.log.stops = @ + 1, !.log.stopWhen = met]
     ELSE [w EXCEPT !.stopReply = "not_found",
                    !.log.stops = @ + 1, !.log.stopWhen = met]

\* The due times of the timers that are pending.
DueTimes ==
  (IF seedTimer THEN {SEED_DELAY} ELSE {})
    \cup (IF timeoutTimer THEN {SESSION_TIMEOUT} ELSE {})
    \cup (IF nudgeInterval THEN {nextCheck} ELSE {})
    \cup UNION {Range(textNudges[a]) : a \in Agents}

(***************************************************************************)
(* Actions.  Commit(w): the callback has returned in state w; the          *)
(* microtasks it queued are run and the result is the next state.          *)
(***************************************************************************)
Commit(w) == \E v \in {Drain(w)} : SetWorld(v)

SeedTimerFires ==
  /\ seedTimer /\ now >= SEED_DELAY
  /\ \E w \in {World} : Commit(SeedCallback(w))

TimeoutFires ==
  /\ timeoutTimer /\ now >= SESSION_TIMEOUT
  /\ \E w \in {World} : Commit(TimeoutCallback(w))

IdleCheck ==
  /\ nudgeInterval /\ now >= nextCheck
  /\ \E w \in {World} : Commit(NudgeIntervalCallback(w))

TextNudgeFires(a) ==
  /\ Len(textNudges[a]) > 0 /\ now >= Head(textNudges[a])
  /\ \E w \in {World} : Commit(TextNudgeCallback(w, a))

StopConversation(conversationId) ==
  /\ log.stops < MaxStops
  /\ \E w \in {World} : Commit(stopConversation(w, conversationId))

\* The completion service answers a call of agent a.
Respond(a, resp) ==
  /\ inFlight[a] > 0
  /\ \E w \in {World} : Commit(TurnResume(w, a, resp))

\* Time passes up to the next timer, once no timer is due.
AdvanceClock ==
  /\ DueTimes # {}
  /\ \A t \in DueTimes : t > now
  /\ now' = CHOOSE t \in DueTimes : \A u \in DueTimes : t <= u
  /\ UNCHANGED <<conversationHistory, inbox, talkCallCount, isComplete,
                 isProcessing, needsAnotherRun, textOnlyResponses,
                 lastActivityTime, inFlight, request, turns, textNudges,
                 completedAgents, resolved, status, timeoutTimer, seedTimer,
                 nudgeInterval, nextCheck, files, dirs, locks, msgSeq,
                 sessionCompleteEvents, completeEmits, resumedEmits, controls,
                 stopReply, log>>

(***************************************************************************)
(* The state after POST /start-conversation has returned.                  *)
(***************************************************************************)
InitWorld ==
  [now |-> 0,
   conversationHistory |-> [a \in Agents |-> <<>>],
   inbox |-> [a \in Agents |-> <<>>],
   talkCallCount |-> [a \in Agents |-> 0],
   isComplete |-> [a \in Agents |-> FALSE],
   isProcessing |-> [a \in Agents |-> FALSE],
   needsAnotherRun |-> [a \in Agents |-> FALSE],
   textOnlyResponses |-> [a \in Agents |-> 0],
   lastActivityTime |-> [a \in Agents |-> 0],
   inFlight |-> [a \in Agents |-> 0],
   request |-> [a \in Agents |-> <<>>],
   turns |-> [a \in Agents |-> 0],
   textNudges |-> [a \in Agents |-> <<>>],
   completedAgents |-> {},
   resolved |-> "pending",
   status |-> "active",
   timeoutTimer |-> TRUE,
   seedTimer |-> TRUE,
   nudgeInterval |-> TRUE,
   nextCheck |-> NUDGE_PERIOD,
   files |-> <<>>,
   dirs |-> {<<>>, <<"tmp">>, PROJECT_WORKSPACE},
   locks |-> <<>>,
   msgSeq |-> 0,
   sessionCompleteEvents |-> 0,
   completeEmits |-> [a \in Agents |-> 0],
   resumedEmits |-> [a \in Agents |-> 0],
   controls |-> {SessionId},
   stopReply |-> "none",
   log |-> [turnAfterStop |-> FALSE,
            pendingTrigger |-> [a \in Agents |-> FALSE],
            callTime |-> [a \in Agents |-> 0],
            lastTurn |-> [a \in Agents |-> "none"],
            lastCall |-> [op |-> "none", agent |-> "", path |-> <<>>,
                          ok |-> FALSE, val |-> "", old |-> <<>>, new |-> <<>>,
                          list |-> <<>>],
            ticks |-> 0,
            thrown |-> {},
            queued |-> [a \in Agents |-> {}],
            lastTalk |-> [published |-> FALSE, target |-> "", wasComplete |-> FALSE,
                          inInbox |-> FALSE, resumed |-> FALSE, inSet |-> FALSE,
                          complete |-> FALSE, withinBudget |-> FALSE,
                          answered |-> FALSE],
            fatal |-> [a \in Agents |-> 0],
            guided |-> [function |-> "", kind |-> "", text |-> <<>>,
                        guidance |-> <<>>],
            metComplete |-> [a \in Agents |->
                               [met |-> FALSE, turns |-> 0, resumed |-> 0]],
            idleNudges |-> 0,
            stops |-> 0,
            stopped |-> FALSE,
            stopWhen |-> "none"],
   thenPending |-> FALSE]

InitFrom(w) ==
  /\ now = w.now
  /\ conversationHistory = w.conversationHistory
  /\ inbox = w.inbox
  /\ talkCallCount = w.talkCallCount
  /\ isComplete = w.isComplete
  /\ isProcessing = w.isProcessing
  /\ needsAnotherRun = w.needsAnotherRun
  /\ textOnlyResponses = w.textOnlyResponses
  /\ lastActivityTime = w.lastActivityTime
  /\ inFlight = w.inFlight
  /\ request = w.request
  /\ turns = w.turns
  /\ textNudges = w.textNudges
  /\ completedAgents = w.completedAgents
  /\ resolved = w.resolved
  /\ status = w.status
  /\ timeoutTimer = w.timeoutTimer
  /\ seedTimer = w.seedTimer
  /\ nudgeInterval = w.nudgeInterval
  /\ nextCheck = w.nextCheck
  /\ files = w.files
  /\ dirs = w.dirs
  /\ locks = w.locks
  /\ msgSeq = w.msgSeq
  /\ sessionCompleteEvents = w.sessionCompleteEvents
  /\ completeEmits = w.completeEmits
  /\ resumedEmits = w.resumedEmits
  /\ controls = w.controls
  /\ stopReply = w.stopReply
  /\ log = w.log

Init == \E w \in {InitWorld} : InitFrom(w)

(***************************************************************************)
(* The answers of the completion service that are explored.                *)
(***************************************************************************)
Call(name, arg, target, path) ==
  [id |-> 0, name |-> name, arg |-> arg, target |-> target, path |-> path,
   content |-> <<"a", "b">>, old |-> <<"a">>, new |-> <<"c">>]

TextResponse == [kind |-> "text", calls |-> <<>>]
ErrorResponse == [kind |-> "error", calls |-> <<>>]
ToolResponse(calls) == [kind |-> "tools", calls |-> calls]

AssistantTurns(a) ==
  Cardinality({i \in 1..Len(conversationHistory[a]) :
                 conversationHistory[a][i].role = "assistant"})

\* The completion service answers within MaxLatency ...
Prompt(a) == now - log.callTime[a] <= MaxLatency

\* ... or its call fails when the session's time limit has passed.
Late(a) == now - log.callTime[a] > MaxLatency /\ now >= SESSION_TIMEOUT

\* An answer without tool calls, or a failed call.
PlainResponses == {TextResponse, ErrorResponse}

\* One talk to a peer, while the session has tool turns left.
TalkResponses(a) ==
  IF AssistantTurns("backend") + AssistantTurns("devops")
       + AssistantTurns("frontend") < MaxToolTurns
  THEN {ToolResponse(<<Call("talk", "ok", b, <<>>)>>) : b \in Agents \ {a}}
  ELSE {}

(***************************************************************************)
(* Spec: one session with its timers and the operator's stop requests;     *)
(* the agents answer with text only or fail.                               *)
(***************************************************************************)
Next ==
  \/ SeedTimerFires
  \/ TimeoutFires
  \/ IdleCheck
  \/ \E a \in Agents : TextNudgeFires(a)
  \/ \E id \in {SessionId, UnknownId} : StopConversation(id)
  \/ \E a \in Agents : \E resp \in PlainResponses :
        Prompt(a) /\ Respond(a, resp)
  \/ \E a \in Agents : Late(a) /\ Respond(a, ErrorResponse)
  \/ AdvanceClock

Spec == Init /\ [][Next]_vars

(***************************************************************************)
(* TalkSpec: one session in which agents also talk to each other, and no   *)
(* stop request is made.                                                   *)
(***************************************************************************)
TalkNext ==
  \/ SeedTimerFires
  \/ TimeoutFires
  \/ IdleCheck
  \/ \E a \in Agents : TextNudgeFires(a)
  \/ \E a \in Agents : \E resp \in PlainResponses \cup TalkResponses(a) :
        Prompt(a) /\ Respond(a, resp)
  \/ AdvanceClock

TalkSpec == Init /\ [][TalkNext]_vars

(***************************************************************************)
(* TurnSpec: the tool loop.  The session has just been seeded; backend     *)
(* answers with any sequence of tool calls, its peers talk to it, so that  *)
(* its inbox holds messages in some turns and none in others, or fail.     *)
(***************************************************************************)
TurnInit ==
  \E w \in {Drain(SeedCallback([InitWorld EXCEPT !.now = SEED_DELAY]))} : InitFrom(w)

AppFile == <<"app.js">>
OutsideFile == <<"..", "..", "etc", "passwd">>

ToolMenu ==
  {Call("talk", "ok", "devops", <<>>),
   Call("read_message", "ok", "", <<>>),
   Call("create_file", "ok", "", AppFile),
   Call("create_file", "ok", "", OutsideFile),
   Call("read_file", "ok", "", AppFile),
   Call("str_replace", "ok", "", AppFile),
   Call("list_files", "ok", "", <<>>),
   Call("delete_file", "ok", "", AppFile),
   Call("deploy", "ok", "", <<>>),
   Call("read_file", "badjson", "", <<>>),
   Call("read_file", "null", "", <<>>)}

CallSeqs == UNION {[1..n -> ToolMenu] : n \in 1..MaxCalls}

WorkerResponses ==
  IF AssistantTurns("backend") < MaxAgentToolTurns
  THEN {ToolResponse(calls) : calls \in CallSeqs}
  ELSE {ErrorResponse}

PeerResponses(p) ==
  {ErrorResponse}
    \cup (IF AssistantTurns(p) < MaxAgentToolTurns
          THEN {ToolResponse(<<Call("talk", "ok", "backend", <<>>)>>)}
          ELSE {})

TurnNext ==
  \/ \E resp \in WorkerResponses : Respond("backend", resp)
  \/ \E p \in Agents \ {"backend"} : \E resp \in PeerResponses(p) :
        Respond(p, resp)

TurnSpec == TurnInit /\ [][TurnNext]_vars

(***************************************************************************)
(* BudgetSpec: the talk budget.  The session has just been seeded; backend *)
(* answers with bursts of talk calls to devops, two of which stop short   *)
(* of, reach or pass maxTalkCalls; every agent may answer with text or    *)
(* fail, and the                                                           *)
(* peers talk to backend, which reactivates it when it is Complete.        *)
(***************************************************************************)
TalkBurst(n, target) == [i \in 1..n |-> Call("talk", "ok", target, <<>>)]

BurstSizes == {1, maxTalkCalls \div 2, maxTalkCalls \div 2 + 1}

BurstResponses ==
  IF AssistantTurns("backend") < MaxBursts
  THEN {ToolResponse(TalkBurst(n, "devops")) : n \in BurstSizes}
  ELSE {}

BudgetNext ==
  \/ \E resp \in BurstResponses : Respond("backend", resp)
  \/ \E a \in Agents : \E resp \in PlainResponses : Respond(a, resp)
  \/ \E p \in Agents \ {"backend"} :
        /\ AssistantTurns(p) < MaxAgentToolTurns
        /\ Respond(p, ToolResponse(TalkBurst(1, "backend")))

BudgetSpec == TurnInit /\ [][BudgetNext]_vars

(***************************************************************************)
(* LockSpec: the lock manager alone.  Any agent acquires or releases the   *)
(* lock of one of two paths or asks for its owner, and the clock advances  *)
(* by one millisecond or                                                   *)
(* by one less than LOCK_TIMEOUT, so that a lock is met just before, at    *)
(* and after its timeout.  log.lastCall is the call made last.             *)
(***************************************************************************)
OtherFile == <<"b.js">>
LockPaths == {AppFile, OtherFile}
TickSizes == {1, LOCK_TIMEOUT - 1}

LockCall(op, a, p, ok) ==
  [op |-> op, agent |-> a, path |-> p, ok |-> ok, val |-> "",
   old |-> <<>>, new |-> <<>>, list |-> <<>>]

AcquireLock(p, a) ==
  \E w \in {World} : \E r \in {acquireLock(w, p, a)} :
    Commit([r.w EXCEPT !.log.lastCall = LockCall("acquire", a, p, r.ok)])

ReleaseLock(p, a) ==
  \E w \in {World} : \E r \in {releaseLock(w, p, a)} :
    Commit([r.w EXCEPT !.log.lastCall = LockCall("release", a, p, r.ok)])

\* lockManager.getLockOwner(p); log.lastCall.val is the owner returned.
GetLockOwner(p) ==
  \E w \in {World} : \E r \in {getLockOwner(w, p)} :
    Commit([r.w EXCEPT !.log.lastCall =
              [LockCall("owner", "", p, r.owner # "null") EXCEPT !.val = r.owner]])

Tick(d) ==
  /\ log.ticks < MaxTicks
  /\ \E w \in {World} : Commit([w EXCEPT !.now = @ + d, !.log.ticks = @ + 1])

LockNext ==
  \/ \E p \in LockPaths : \E a \in Agents : AcquireLock(p, a)
  \/ \E p \in LockPaths : \E a \in Agents : ReleaseLock(p, a)
  \/ \E p \in LockPaths : GetLockOwner(p)
  \/ \E d \in TickSizes : Tick(d)

LockSpec == Init /\ [][LockNext]_vars

(***************************************************************************)
(* StoreSpec: the workspace store as the file-system test drives it: any   *)
(* agent calls a file tool or the lock manager, and the clock advances.    *)
(* The paths are a file of the workspace, a path below it (the file is a   *)
(* directory once that path is created first), a relative and an absolute  *)
(* path outside the workspace, and a path into the sibling directory       *)
(* /tmp/project-evil.  Two agents call the tools.  As in that test, the    *)
(* lock manager is called directly by another agent, which takes the lock  *)
(* of the file of the workspace and leaves the file to the callers: the    *)
(* server takes locks inside the tools only, so that an agent never calls  *)
(* a tool while it holds a lock.  A lock is live after one advance of the  *)
(* clock and has timed out after two.  log.lastCall is the call made last and its  *)
(* outcome: the kind of the Error thrown, or what the call did.            *)
(***************************************************************************)
NestedFile == <<"app.js", "x.js">>
AbsoluteFile == <<"/", "etc", "passwd">>
SiblingFile == <<"..", "project-evil", "x.js">>
StorePaths == {AppFile, NestedFile, OutsideFile, AbsoluteFile, SiblingFile}

StoreCall(op, a, p, r, did) ==
  [op |-> op, agent |-> a, path |-> p, ok |-> r.ok,
   val |-> IF r.ok THEN did ELSE r.val, old |-> <<>>, new |-> <<>>,
   list |-> <<>>]

CreateFile(a, p) ==
  \E w \in {World} : \E r \in {createFile(w, a, p, <<"a", "b">>)} :
    Commit([r.w EXCEPT !.log.lastCall = StoreCall("create_file", a, p, r, "created")])

ReadFile(p) ==
  \E w \in {World} : \E r \in {readFile(w, p)} :
    Commit([r.w EXCEPT !.log.lastCall = StoreCall("read_file", "", p, r, "read")])

StrReplace(a, p) ==
  \E w \in {World} : \E r \in {strReplace(w, a, p, <<"a">>, <<"c">>)} :
    Commit([r.w EXCEPT !.log.lastCall = StoreCall("str_replace", a, p, r, "modified")])

ListFiles(p) ==
  \E w \in {World} : \E r \in {listFiles(w, p)} :
    Commit([r.w EXCEPT !.log.lastCall =
              [StoreCall("list_files", "", p, r, "listed")
                 EXCEPT !.list = IF r.ok THEN r.val ELSE <<>>]])

DeleteFile(a, p) ==
  \E w \in {World} : \E r \in {deleteFile(w, a, p)} :
    Commit([r.w EXCEPT !.log.lastCall = StoreCall("delete_file", a, p, r, "deleted")])

StoreAgents == {"backend", "devops"}
LockHolder == "frontend"

StoreNext ==
  \/ \E a \in StoreAgents : \E p \in StorePaths : CreateFile(a, p)
  \/ \E p \in StorePaths : ReadFile(p)
  \/ \E a \in StoreAgents : \E p \in StorePaths : StrReplace(a, p)
  \/ \E p \in StorePaths : ListFiles(p)
  \/ \E a \in StoreAgents : \E p \in StorePaths : DeleteFile(a, p)
  \/ AcquireLock(AppFile, LockHolder)
  \/ ReleaseLock(AppFile, LockHolder)
  \/ Tick(LOCK_TIMEOUT - 1)

StoreSpec == Init /\ [][StoreNext]_vars

(***************************************************************************)
(* CreateSpec: the session has just been seeded; backend and devops each   *)
(* answer one turn with a create of the same path, with a content of their *)
(* own, before or after a read of it; every agent may answer with text or  *)
(* fail.  The callbacks of the two agents interleave in every order.       *)
(***************************************************************************)
Creators == {"backend", "devops"}

ContentOf(a) == <<a>>

CreateCall(a) ==
  [Call("create_file", "ok", "", AppFile) EXCEPT !.content = ContentOf(a)]

CreateResponses(a) ==
  IF a \in Creators /\ AssistantTurns(a) < MaxAgentToolTurns
  THEN {ToolResponse(<<CreateCall(a)>>),
        ToolResponse(<<Call("read_file", "ok", "", AppFile), CreateCall(a)>>),
        ToolResponse(<<CreateCall(a), Call("read_file", "ok", "", AppFile)>>)}
  ELSE {}

CreateNext ==
  \/ \E a \in Agents : \E resp \in CreateResponses(a) : Respond(a, resp)
  \/ \E a \in Agents : \E resp \in PlainResponses : Respond(a, resp)

CreateSpec == TurnInit /\ [][CreateNext]_vars

(***************************************************************************)
(* ReplaceSpec: strReplace as a function of the file and its arguments.    *)
(* The file is absent or holds any string of up to MaxLen characters; old  *)
(* and new are any such strings.  "$" and "&" are the characters that      *)
(* String.prototype.replace gives a meaning in a replacement text.  A file *)
(* that has grown beyond MaxLen is left alone.  log.lastCall holds the     *)
(* arguments of the call made last.                                        *)
(***************************************************************************)
Alphabet == {"a", "$", "&"}
Strings == UNION {[1..n -> Alphabet] : n \in 0..MaxLen}

ReplaceInit ==
  \E present \in BOOLEAN : \E c \in Strings :
    \E w \in {[InitWorld EXCEPT !.files =
                  IF present THEN PutFile(<<>>, Resolve(AppFile), c) ELSE <<>>]} :
      InitFrom(w)

Replace(old, new) ==
  /\ Resolve(AppFile) \in DOMAIN files => Len(files[Resolve(AppFile)]) <= MaxLen
  /\ \E w \in {World} : \E r \in {strReplace(w, "backend", AppFile, old, new)} :
       Commit([r.w EXCEPT !.log.lastCall =
                 [StoreCall("str_replace", "backend", AppFile, r, "modified")
                    EXCEPT !.old = old, !.new = new]])

ReplaceNext == \E old \in Strings : \E new \in Strings : Replace(old, new)

ReplaceSpec == ReplaceInit /\ [][ReplaceNext]_vars

(***************************************************************************)
(* ListSpec: list on a tree that grows and shrinks.  backend creates and   *)
(* deletes files at the top of the workspace and in two nested             *)
(* directories, one of which has the name of a file without its extension; *)
(* list is called on the workspace, on the directories (which are absent,  *)
(* populated or empty after deletes) and on a file.  log.lastCall.list is  *)
(* the sequence that the list called last returned.                        *)
(***************************************************************************)
TreeFiles ==
  {AppFile, OtherFile, <<"app", "x.js">>, <<"app", "lib", "b.js">>}

ListDirs == {<<".">>, <<"app">>, <<"app", "lib">>, <<"lib">>, AppFile}

ListNext ==
  \/ \E p \in TreeFiles : CreateFile("backend", p)
  \/ \E p \in TreeFiles : DeleteFile("backend", p)
  \/ \E p \in ListDirs : ListFiles(p)

ListSpec == Init /\ [][ListNext]_vars

(***************************************************************************)
(* ErrorSpec: tool calls that fail.  The session has just been seeded;     *)
(* backend answers one turn with up to MaxCalls calls of file tools, which *)
(* succeed or throw according to the state of the workspace: a read        *)
(* outside the workspace, a delete of the workspace directory, and create, *)
(* read, replace and delete of one file.  The lock of that file is taken   *)
(* and released by a direct call of the lock manager in the name of        *)
(* LockHolder, as in the file-system test: the tools themselves give back  *)
(* every lock before they return.  Every agent may answer with text or     *)
(* fail.                                                                   *)
(***************************************************************************)
ErrorMenu ==
  {Call("create_file", "ok", "", AppFile),
   Call("read_file", "ok", "", AppFile),
   Call("str_replace", "ok", "", AppFile),
   Call("delete_file", "ok", "", AppFile),
   Call("delete_file", "ok", "", <<".">>),
   Call("read_file", "ok", "", OutsideFile)}

ErrorResponses ==
  IF AssistantTurns("backend") < MaxAgentToolTurns
  THEN {ToolResponse(calls) : calls \in UNION {[1..n -> ErrorMenu] : n \in 1..MaxCalls}}
  ELSE {}

ErrorNext ==
  \/ \E resp \in ErrorResponses : Respond("backend", resp)
  \/ \E a \in Agents : \E resp \in PlainResponses : Respond(a, resp)
  \/ AcquireLock(AppFile, LockHolder)
  \/ ReleaseLock(AppFile, LockHolder)

ErrorSpec == TurnInit /\ [][ErrorNext]_vars

(***************************************************************************)
(* GuidanceSpec: _getErrorGuidance as a function of the Error.  A tool     *)
(* throws an Error of a kind that it can throw, for a path or a search     *)
(* string that the agent supplied: an ordinary file name, or a text that   *)
(* holds words of the messages (a search string taken from a source file   *)
(* that reports such errors).  log.guided is the call, the kind of the     *)
(* Error and the guidance that was selected.                               *)
(***************************************************************************)
ThrownKinds(functionName) ==
  CASE functionName = "create_file" -> {"AccessDenied", "AlreadyExists", "Locked"}
    [] functionName = "read_file" -> {"AccessDenied", "NotFound"}
    [] functionName = "str_replace" -> {"AccessDenied", "Locked", "NotFound", "NoMatch"}
    [] functionName = "delete_file" ->
         {"AccessDenied", "Locked", "NotFound", "IsDirectory"}
    [] OTHER -> {"AccessDenied"}

FileTools == {"create_file", "read_file", "str_replace", "list_files", "delete_file"}

AgentTexts ==
  {<<"app.js">>, <<"src", "/", "app.js">>,
   <<"File", "already", "exists">>, <<"File", "not", "found">>,
   <<"locked", "by">>, <<"String", "not", "found">>,
   <<"Cannot", "delete", "directory">>, <<"Access", "denied">>}

Guide(functionName, kind, text) ==
  \E w \in {World} :
    Commit([w EXCEPT !.log.guided =
              [function |-> functionName, kind |-> kind, text |-> text,
               guidance |-> _getErrorGuidance(functionName,
                                              ErrorMessageOf(kind, text))]])

GuidanceNext ==
  \E functionName \in FileTools : \E kind \in ThrownKinds(functionName) :
    \E text \in AgentTexts : Guide(functionName, kind, text)

GuidanceSpec == Init /\ [][GuidanceNext]_vars

(***************************************************************************)
(* AliasSpec: the lock manager called with several spellings of one file.  *)
(* path.resolve maps "app.js", "./app.js" and "lib/../app.js" to the same  *)
(* file of the workspace.  Two agents acquire and release the lock of a    *)
(* spelling, and the clock advances by one less than LOCK_TIMEOUT.         *)
(***************************************************************************)
DotFile == <<".", "app.js">>
DotDotFile == <<"lib", "..", "app.js">>
AliasPaths == {AppFile, DotFile, DotDotFile}

AliasNext ==
  \/ \E p \in AliasPaths : \E a \in StoreAgents : AcquireLock(p, a)
  \/ \E p \in AliasPaths : \E a \in StoreAgents : ReleaseLock(p, a)
  \/ Tick(LOCK_TIMEOUT - 1)

AliasSpec == Init /\ [][AliasNext]_vars

(***************************************************************************)
(* SnapshotSpec: file tools of two agents and the snapshot requests.       *)
(* The session has just been seeded; backend and devops each       *)
(* answer one turn with up to two calls that take a lock: create, replace  *)
(* and delete of one file, and a create below it, which fails in the file  *)
(* system once the lock is held when that file exists.  Between the        *)
(* callbacks of the agents GET /api/files lists the workspace and GET      *)
(* /api/files/app.js reads the file.                                       *)
(***************************************************************************)
SnapshotMenu ==
  {Call("create_file", "ok", "", AppFile),
   Call("str_replace", "ok", "", AppFile),
   Call("delete_file", "ok", "", AppFile),
   Call("create_file", "ok", "", NestedFile)}

SnapshotResponses(a) ==
  IF a \in StoreAgents /\ AssistantTurns(a) < MaxAgentToolTurns
  THEN {ToolResponse(calls) : calls \in [1..1 -> SnapshotMenu] \cup [1..2 -> SnapshotMenu]}
  ELSE {}

SnapshotNext ==
  \/ \E a \in Agents : \E resp \in SnapshotResponses(a) : Respond(a, resp)
  \/ \E a \in Agents : \E resp \in PlainResponses : Respond(a, resp)
  \/ ListFiles(<<".">>)
  \/ ReadFile(AppFile)

SnapshotSpec == TurnInit /\ [][SnapshotNext]_vars

(***************************************************************************)
(* ForcedSpec: the talk budget is spent in the middle of a turn.  The      *)
(* session has just been seeded; backend answers two turns with half of    *)
(* maxTalkCalls talk calls each, followed or not by a create of a file,    *)
(* one more talk and a replace in that file, so that the budget is spent   *)
(* at the last call of a turn or before its last calls; every agent may    *)
(* answer with text or fail, and the peers talk to backend, which          *)
(* reactivates it when it is Complete.                                     *)
(***************************************************************************)
ForcedTail ==
  <<Call("create_file", "ok", "", AppFile),
    Call("talk", "ok", "devops", <<>>),
    Call("str_replace", "ok", "", AppFile)>>

ForcedResponses ==
  IF AssistantTurns("backend") < MaxBursts
  THEN {ToolResponse(TalkBurst(maxTalkCalls \div 2, "devops") \o tail) :
          tail \in {<<>>, ForcedTail}}
  ELSE {}

ForcedNext ==
  \/ \E resp \in ForcedResponses : Respond("backend", resp)
  \/ \E a \in Agents : \E resp \in PlainResponses : Respond(a, resp)
  \/ \E p \in Agents \ {"backend"} :
        /\ AssistantTurns(p) < MaxAgentToolTurns
        /\ Respond(p, ToolResponse(TalkBurst(1, "backend")))

ForcedSpec == TurnInit /\ [][ForcedNext]_vars

(***************************************************************************)
(* LiveSpec: Spec with the scheduling of the event loop: a timer that is   *)
(* due fires, and time passes when none is due.                            *)
(***************************************************************************)
LiveSpec ==
  /\ Spec
  /\ WF_vars(AdvanceClock)
  /\ WF_vars(SeedTimerFires)
  /\ WF_vars(TimeoutFires)
  /\ WF_vars(IdleCheck)
  /\ \A a \in Agents : WF_vars(TextNudgeFires(a))

(***************************************************************************)
(* Properties of the transcript (TurnSpec).                                *)
(***************************************************************************)
\* The tool entries of m that answer the call with this id.
AnswersOf(m, callId) ==
  {j \in 1..Len(m) : m[j].role = "tool" /\ m[j].id = callId}

ExactlyOneAnswerEach(m) ==
  \A i \in 1..Len(m) :
    m[i].role = "assistant" =>
      \A k \in 1..Len(m[i].calls) :
        Cardinality(AnswersOf(m, m[i].calls[k])) = 1

\* C1: in the messages of every call of the completion service, each tool
\* call id of every assistant entry has exactly one tool entry with that id,
\* also when the call was of an unmapped tool or the tool loop threw.
C1_ExactlyOneToolResult ==
  \A a \in Agents : ExactlyOneAnswerEach(request[a])

\* A replay of backend's transcript that holds a synthesized tool result
\* (the call was not processed by the tool loop).
C1_Witness ==
  \E i \in 1..Len(request["backend"]) :
    /\ request["backend"][i].role = "tool"
    /\ request["backend"][i].tag = "not_processed"

\* The n entries after an assistant entry with n calls are its tool results.
Contiguous(h) ==
  \A i \in 1..Len(h) :
    h[i].role = "assistant" =>
      \A k \in 1..Len(h[i].calls) :
        /\ i + k <= Len(h)
        /\ h[i + k].role = "tool"
        /\ h[i + k].id \in Range(h[i].calls)

\* C2: once the tool calls of a turn have been processed, its tool results
\* lie directly after the assistant entry with nothing between them, for
\* every sequence of tools and every inbox content.
C2_ToolResultsContiguous ==
  \A a \in Agents : Contiguous(conversationHistory[a])

\* The ids of the tool results of the assistant entry at i, in transcript
\* order.
AnswerOrder(h, i) ==
  LET answers == SelectSeq(SubSeq(h, i + 1, Len(h)),
                           LAMBDA e : e.role = "tool" /\ e.id \in Range(h[i].calls))
  IN [k \in 1..Len(answers) |-> answers[k].id]

\* C3: once the tool calls of a turn have been processed, its tool results
\* are in the order of the calls in the assistant entry, also in turns with
\* an unmapped tool or a synthesized result.
C3_ToolResultsInCallOrder ==
  \A a \in Agents :
    \A i \in 1..Len(conversationHistory[a]) :
      conversationHistory[a][i].role = "assistant" =>
        AnswerOrder(conversationHistory[a], i) = conversationHistory[a][i].calls

(***************************************************************************)
(* Properties of the turn loop (TalkSpec).                                 *)
(***************************************************************************)
\* C4: no agent has more than one turn awaiting the completion service,
\* whatever the order of seeds, talk messages, self-loop messages, nudges
\* and answers.
C4_OneTurnInFlight == \A a \in Agents : inFlight[a] <= 1

\* A talk message has arrived for an agent whose turn is in flight.
C4_Witness ==
  \E a \in Agents :
    inFlight[a] = 1 /\ log.pendingTrigger[a] /\ Len(inbox[a]) > 0

\* C5: a message that arrived while a turn of the agent was in flight is
\* followed by another turn of the agent as soon as that turn has finished:
\* between callbacks, a trigger not yet followed by a turn start means the
\* turn it arrived in is still in flight.
C5_NoTriggerDropped ==
  \A a \in Agents : log.pendingTrigger[a] => inFlight[a] > 0

(***************************************************************************)
(* Properties of the supervisor.                                           *)
(***************************************************************************)
AllComplete == \A a \in Agents : isComplete[a]

\* C6: the status becomes complete only in a state where all three agents
\* are Complete, and a step in which the last agent becomes Complete while
\* the session is active makes the status complete (TalkSpec).
C6_CompleteIffAllComplete ==
  [][/\ (status # "complete" /\ status' = "complete") => AllComplete'
     /\ (status = "active" /\ ~AllComplete /\ AllComplete') => status' = "complete"
    ]_vars

\* The session resolved complete after an agent had completed and resumed.
C6_Witness ==
  status = "complete" /\ \E a \in Agents : resumedEmits[a] > 0

\* C7: the status leaves active at most once and never changes afterwards,
\* and one session-complete event is broadcast, when it does (Spec).
C7_StatusFixedOnce ==
  /\ [][status # "active" => status' = status]_vars
  /\ [](sessionCompleteEvents = IF status = "active" THEN 0 ELSE 1)

\* The session timed out first; later a stop request was accepted and all
\* agents became Complete.
C7_Witness ==
  status = "timeout" /\ log.stopped /\ AllComplete

NoCompletionNoStop ==
  ~log.stopped /\ \A a \in Agents : completeEmits[a] = 0

\* C8: every session reaches a terminal status and broadcasts
\* session-complete; as long as no agent has completed and no stop was
\* accepted the status is active before SESSION_TIMEOUT has passed and
\* timeout once the timer has fired, never stopped (LiveSpec).
C8_SessionTerminates ==
  /\ <>(status # "active" /\ sessionCompleteEvents = 1)
  /\ <>(~NoCompletionNoStop \/ status = "timeout")
  /\ [](NoCompletionNoStop =>
          \/ status = "active" /\ now <= SESSION_TIMEOUT
          \/ status = "timeout" /\ now >= SESSION_TIMEOUT)

\* The session timed out: no agent ever completed and nobody stopped it.
C8_Witness ==
  status = "timeout" /\ NoCompletionNoStop

\* C9: after a stop, no agent starts a turn (Spec).
C9_NoTurnAfterStop == ~log.turnAfterStop

\* C10: a stop request that met the active session resolves it as stopped;
\* one that met an unknown id, or a session already resolved, is answered
\* 'not found' (Spec).
C10_StopReplies ==
  /\ log.stopWhen = "active" =>
       stopReply = "stopped" /\ status = "stopped_by_user"
  /\ log.stopWhen \in {"resolved", "unknown"} => stopReply = "not_found"

(***************************************************************************)
(* Properties of completion and reactivation (TalkSpec).                   *)
(***************************************************************************)
\* The turns of agent a that have ended.
TurnsEnded(a) == turns[a] - inFlight[a]

\* C11: when a turn of an agent is answered with text only and its previous
\* turn was answered with text only too, the agent is Complete after the
\* step and has emitted one agent:complete signal in it; when the previous
\* turn was answered with tool calls, the text-only answer leaves the agent
\* not Complete and emits no signal.
C11_TwoTextOnlyTurnsComplete ==
  [][\A a \in Agents :
       (TurnsEnded(a)' > TurnsEnded(a) /\ log'.lastTurn[a] = "text") =>
         /\ log.lastTurn[a] = "text" =>
              /\ isComplete'[a]
              /\ completeEmits'[a] = completeEmits[a] + 1
         /\ log.lastTurn[a] = "tools" =>
              /\ ~isComplete'[a]
              /\ completeEmits'[a] = completeEmits[a]
    ]_vars

\* One agent has completed on its second text-only answer in a row; another
\* has answered with tool calls and then with text, and is not Complete.
C11_Witness ==
  \E a, b \in Agents :
    /\ TurnsEnded(a) = 2 /\ AssistantTurns(a) = 0 /\ textOnlyResponses[a] = 2
    /\ isComplete[a] /\ completeEmits[a] = 1
    /\ TurnsEnded(b) = 2 /\ AssistantTurns(b) = 1 /\ textOnlyResponses[b] = 1
    /\ log.lastTurn[b] = "text" /\ ~isComplete[b]

(***************************************************************************)
(* Reactivation by queued messages (BudgetSpec).                           *)
(***************************************************************************)
\* A step in which talk messages were queued for agent a.
QueuedArrival(a) == Len(inbox'[a]) > Len(inbox[a])

\* A queued message that arrived while a was not Complete emitted no
\* resumed signal.
NoResumeWhenActive(a) ==
  (QueuedArrival(a) /\ ~isComplete[a]) => resumedEmits'[a] = resumedEmits[a]

\* The step left a not Complete, with one more resumed signal and one more
\* call of the completion service.
Reactivated(a) ==
  /\ ~isComplete'[a]
  /\ resumedEmits'[a] = resumedEmits[a] + 1
  /\ turns'[a] = turns[a] + 1

\* C12 as stated: queued messages that arrive for a Complete agent make it
\* leave Complete, emit exactly one resumed signal and run a turn; queued
\* messages that arrive for an agent that is not Complete emit no resumed
\* signal.
C12_QueuedMessageReactivates ==
  [][\A a \in Agents :
       /\ (QueuedArrival(a) /\ isComplete[a]) => Reactivated(a)
       /\ NoResumeWhenActive(a)
    ]_vars

\* C12, amended: the above holds for a Complete agent whose talk count is
\* below maxTalkCalls.  An agent whose talk count has reached maxTalkCalls
\* emits one resumed signal too, but the turn that is run ends at its budget
\* test: no call of the completion service is made, and the agent is
\* Complete again, with one more agent:complete signal, when the step ends.
C12_ReactivatesWithinBudget ==
  [][\A a \in Agents :
       /\ (QueuedArrival(a) /\ isComplete[a]) =>
            IF talkCallCount[a] < maxTalkCalls
            THEN Reactivated(a)
            ELSE /\ isComplete'[a]
                 /\ resumedEmits'[a] = resumedEmits[a] + 1
                 /\ completeEmits'[a] = completeEmits[a] + 1
                 /\ turns'[a] = turns[a]
       /\ NoResumeWhenActive(a)
    ]_vars

\* An agent within its budget was Complete, has been reactivated once by a
\* queued message, and a further message was queued while its turn is in
\* flight.
C12_Witness ==
  \E a \in Agents :
    /\ talkCallCount[a] < maxTalkCalls
    /\ completeEmits[a] = 1 /\ resumedEmits[a] = 1
    /\ ~isComplete[a] /\ inFlight[a] = 1
    /\ Len(inbox[a]) >= 2

(***************************************************************************)
(* Immediate delivery (BudgetSpec).                                        *)
(***************************************************************************)
\* The entries of a's transcript that were delivered immediately (an entry
\* read from the inbox carries the identity of its message).
ImmediateEntries(a) ==
  {i \in 1..Len(conversationHistory[a]) :
     conversationHistory[a][i].role = "user" /\ conversationHistory[a][i].id = 0}

\* C13: once an immediate message has arrived at a Complete agent, the
\* agent has emitted a resumed signal and has started a turn since; and a
\* step that appends an immediate message to the transcript of an Idle
\* agent starts a turn of it.
C13_ImmediateMessageRunsTurn ==
  /\ [](\A a \in Agents :
          log.metComplete[a].met =>
            /\ resumedEmits[a] > log.metComplete[a].resumed
            /\ turns[a] > log.metComplete[a].turns)
  /\ [][\A a \in Agents :
         (/\ Cardinality(ImmediateEntries(a)') > Cardinality(ImmediateEntries(a))
          /\ ~isComplete[a] /\ ~isProcessing[a]) => turns'[a] > turns[a]
      ]_vars

(***************************************************************************)
(* The talk budget (BudgetSpec, in which no inbox message is read).        *)
(***************************************************************************)
\* The messages of agent a that lie in the inboxes.
QueuedFrom(a) ==
  {p \in Agents \X (1..msgSeq) :
     p[2] <= Len(inbox[p[1]]) /\ inbox[p[1]][p[2]].from = a}

\* C14: the talk count of an agent never decreases and never exceeds
\* maxTalkCalls; every message it has queued in an inbox was counted, so
\* that it queues at most maxTalkCalls; an agent whose count has reached
\* the maximum is Complete whenever a callback has returned, also after a
\* reactivation; and no step adds a message of such an agent to an inbox.
C14_TalkBudget ==
  /\ [](\A a \in Agents :
          /\ talkCallCount[a] <= maxTalkCalls
          /\ Cardinality(QueuedFrom(a)) <= talkCallCount[a]
          /\ talkCallCount[a] >= maxTalkCalls => isComplete[a])
  /\ [][\A a \in Agents :
         /\ talkCallCount'[a] >= talkCallCount[a]
         /\ talkCallCount[a] >= maxTalkCalls => QueuedFrom(a)' = QueuedFrom(a)
      ]_vars

\* backend has used its budget in a turn whose last talk call was refused,
\* and has since been reactivated by a queued message and completed again.
C14_Witness ==
  /\ talkCallCount["backend"] = maxTalkCalls
  /\ Len(inbox["devops"]) = maxTalkCalls
  /\ \E i \in 1..Len(conversationHistory["backend"]) :
        /\ conversationHistory["backend"][i].role = "tool"
        /\ conversationHistory["backend"][i].tag = "cannot_talk"
  /\ resumedEmits["backend"] = 1
  /\ completeEmits["backend"] = 2
  /\ isComplete["backend"]

(***************************************************************************)
(* The lock manager (LockSpec).                                            *)
(***************************************************************************)
\* The step is a call op(p, a) of the lock manager.
LockStep(op) == now' = now /\ log'.lastCall.op = op

\* C15: an acquire of a path that has no lock (none was taken, or its owner
\* released it) succeeds; an acquire of a path locked by another owner less
\* than LOCK_TIMEOUT ago fails and leaves the locks unchanged; an acquire
\* of a path whose lock is LOCK_TIMEOUT old or older succeeds; a successful
\* acquire makes the caller the owner; and a release by the owner removes
\* the lock.
C15_LockAcquireRelease ==
  [][LET p == log'.lastCall.path
         a == log'.lastCall.agent
         ok == log'.lastCall.ok
     IN /\ LockStep("acquire") =>
             /\ p \notin DOMAIN locks => ok
             /\ (/\ p \in DOMAIN locks
                 /\ locks[p].agent # a
                 /\ now - locks[p].timestamp < LOCK_TIMEOUT) =>
                  ~ok /\ locks' = locks
             /\ (/\ p \in DOMAIN locks
                 /\ now - locks[p].timestamp >= LOCK_TIMEOUT) => ok
             /\ ok => /\ p \in DOMAIN locks'
                      /\ locks'[p] = [agent |-> a, timestamp |-> now]
        /\ (/\ LockStep("release")
            /\ p \in DOMAIN locks
            /\ locks[p].agent = a) => ok /\ p \notin DOMAIN locks'
    ]_vars

\* devops holds a lock that it took from backend exactly LOCK_TIMEOUT after
\* backend had acquired it, and frontend has just been refused it.
C15_Witness ==
  /\ AppFile \in DOMAIN locks
  /\ locks[AppFile] = [agent |-> "devops", timestamp |-> LOCK_TIMEOUT]
  /\ log.lastCall = LockCall("acquire", "frontend", AppFile, FALSE)
  /\ now > LOCK_TIMEOUT

(***************************************************************************)
(* The workspace store (StoreSpec).                                        *)
(***************************************************************************)
\* The step is a call of a tool that writes: create, replace or delete.
MutatingStep ==
  now' = now /\ log'.lastCall.op \in {"create_file", "str_replace", "delete_file"}

\* Agent a holds the lock of path p in the lock table lk.
Holds(lk, p, a) == p \in DOMAIN lk /\ lk[p].agent = a

\* C16: after a create, replace or delete call has returned or thrown, the
\* caller holds no lock on the path of the call.
C16_NoLockAfterCall ==
  [][MutatingStep =>
       ~Holds(locks', log'.lastCall.path, log'.lastCall.agent)]_vars

\* A create below a regular file has thrown an I/O error after it had taken
\* the lock, and no lock is held.
C16_Witness ==
  /\ log.lastCall.op = "create_file"
  /\ log.lastCall.path = NestedFile
  /\ log.lastCall.val = "IOError"
  /\ DOMAIN locks = {}
  /\ now > 0

\* The lock of path p is held by an agent other than a and has not timed
\* out.
LockedByOther(p, a) ==
  /\ p \in DOMAIN locks
  /\ locks[p].agent # a
  /\ now - locks[p].timestamp < LOCK_TIMEOUT

\* C17: a create, replace or delete on a path whose live lock another agent
\* holds fails with Locked, leaves files and directories as they were, and
\* leaves the lock in place.
C17_LockedCallFails ==
  [][(MutatingStep /\ LockedByOther(log'.lastCall.path, log'.lastCall.agent)) =>
       /\ ~log'.lastCall.ok
       /\ log'.lastCall.val = "Locked"
       /\ files' = files
       /\ dirs' = dirs
       /\ locks' = locks
    ]_vars

(***************************************************************************)
(* Two creates of one path (CreateSpec).                                   *)
(***************************************************************************)
\* The tool results of agent a's create calls with this outcome.
CreateResults(a, tag) ==
  {j \in 1..Len(conversationHistory[a]) :
     /\ conversationHistory[a][j].role = "tool"
     /\ conversationHistory[a][j].tag = tag}

\* The tool results of a's create calls, whatever their outcome.
AllCreateResults(a) ==
  {j \in 1..Len(conversationHistory[a]) :
     /\ conversationHistory[a][j].role = "tool"
     /\ conversationHistory[a][j].tag \notin {"read", "NotFound"}}

\* C18: once backend and devops have each called create on the path, in
\* either order, one create has succeeded and every other one has thrown
\* AlreadyExists; the tool result of a refused create names str_replace as
\* the tool to use; and the file holds the content of the create that
\* succeeded.  At no time has more than one create succeeded.
C18_OneCreateWins ==
  /\ Cardinality(CreateResults("backend", "created"))
       + Cardinality(CreateResults("devops", "created")) <= 1
  /\ (\A a \in Creators : AssistantTurns(a) > 0) =>
       \E won, lost \in Creators :
         /\ won # lost
         /\ Cardinality(CreateResults(won, "created")) = 1
         /\ CreateResults(lost, "AlreadyExists") # {}
         /\ \A a \in Creators :
              AllCreateResults(a) =
                CreateResults(a, "created") \cup CreateResults(a, "AlreadyExists")
         /\ Includes(ErrorContent("create_file", "AlreadyExists"), <<"str_replace">>)
         /\ Resolve(AppFile) \in DOMAIN files
         /\ files[Resolve(AppFile)] = ContentOf(won)

\* devops created the file first; the create of backend was refused.
C18_Witness ==
  /\ CreateResults("devops", "created") # {}
  /\ CreateResults("backend", "AlreadyExists") # {}
  /\ files[Resolve(AppFile)] = ContentOf("devops")

(***************************************************************************)
(* Confinement to the workspace (StoreSpec).                               *)
(***************************************************************************)
\* The step is a call of a file tool.
FileStep ==
  /\ now' = now
  /\ log'.lastCall.op \in
       {"create_file", "read_file", "str_replace", "list_files", "delete_file"}

\* The location is the workspace root or lies below it.
UnderRoot(full) ==
  /\ Len(full) >= Len(PROJECT_WORKSPACE)
  /\ SubSeq(full, 1, Len(PROJECT_WORKSPACE)) = PROJECT_WORKSPACE

\* C19: the path of every call of a file tool either resolves to a location
\* under the workspace root, or the call throws AccessDenied and leaves
\* files and directories as they were; so for relative paths with "..",
\* absolute paths and paths into a sibling directory whose name begins with
\* the name of the root.
C19_PathsConfined ==
  [][FileStep =>
       \/ UnderRoot(Resolve(log'.lastCall.path))
       \/ /\ ~log'.lastCall.ok
          /\ log'.lastCall.val = "AccessDenied"
          /\ files' = files
          /\ dirs' = dirs
    ]_vars

(***************************************************************************)
(* replace (ReplaceSpec).                                                  *)
(***************************************************************************)
\* s with its first occurrence of old, which it contains, replaced by new.
FirstReplaced(s, old, new) ==
  LET i == CHOOSE k \in 1..(Len(s) + 1) :
             /\ IsPrefixAt(s, old, k)
             /\ \A j \in 1..(k - 1) : ~IsPrefixAt(s, old, j)
  IN SubSeq(s, 1, i - 1) \o new \o SubSeq(s, i + Len(old), Len(s))

\* C20: a replace on a file that contains old returns and leaves the file
\* with its first occurrence of old replaced by new and nothing else
\* changed; on a file that does not contain old it throws NoMatch and
\* leaves the file as it was; on an absent file it throws NotFound and
\* creates no file.
C20_ReplaceFirstOccurrence ==
  [][log'.lastCall.op = "str_replace" =>
       LET full == Resolve(log'.lastCall.path)
           old == log'.lastCall.old
           new == log'.lastCall.new
       IN IF full \notin DOMAIN files
          THEN /\ log'.lastCall.val = "NotFound"
               /\ files' = files
          ELSE IF Includes(files[full], old)
               THEN /\ log'.lastCall.ok
                    /\ files' = PutFile(files, full, FirstReplaced(files[full], old, new))
               ELSE /\ log'.lastCall.val = "NoMatch"
                    /\ files' = files
    ]_vars

(***************************************************************************)
(* list (ListSpec).                                                        *)
(***************************************************************************)
\* The files below the directory `full`, as paths relative to it.
FilesBelow(full) ==
  {SubSeq(f, Len(full) + 1, Len(f)) :
     f \in {g \in DOMAIN files : IsProperPrefix(full, g)}}

\* The sequence holds every element of the set exactly once.
ListsOnce(list, S) == Range(list) = S /\ Len(list) = Cardinality(S)

\* The paths of the sequence ascend as strings.
Ascending(list) ==
  \A i, j \in 1..Len(list) :
    i < j => CodeLess(PathString(list[i]), PathString(list[j]))

\* C21: a list of a directory returns every file below it exactly once, as
\* a path relative to it, nested paths included, and the paths returned
\* ascend in lexicographic order; a list of an empty or absent directory
\* returns the empty sequence.
C21_ListSortedOnce ==
  [][(now' = now /\ log'.lastCall.op = "list_files") =>
       LET full == Resolve(log'.lastCall.path)
           list == log'.lastCall.list
       IN (full \notin DOMAIN files) =>
            /\ log'.lastCall.ok
            /\ ListsOnce(list, FilesBelow(full))
            /\ Ascending(list)
            /\ (full \notin dirs \/ FilesBelow(full) = {}) => list = <<>>
    ]_vars

(***************************************************************************)
(* Tool calls that fail (ErrorSpec).                                       *)
(***************************************************************************)
WorkspaceErrorKinds ==
  {"AlreadyExists", "NotFound", "NoMatch", "IsDirectory", "AccessDenied", "Locked"}

\* The outcomes of the call with this id in the transcript h.
OutcomesOf(h, callId) == {h[j].tag : j \in AnswersOf(h, callId)}

\* The notices of success that h holds for the call with this id.
NoticesOf(h, callId) ==
  {j \in 1..Len(h) : h[j].role = "system" /\ h[j].id = callId}

\* The kinds of the Errors of the six kinds that the tool called for this id
\* threw.
ThrownBy(thrown, callId) ==
  {kind \in WorkspaceErrorKinds : <<callId, kind>> \in thrown}

\* A turn of agent a that was answered with tool calls ends in the step.
ToolTurnEnds(a) ==
  TurnsEnded(a)' > TurnsEnded(a) /\ log'.lastTurn[a] = "tools"

\* C22: when a turn with tool calls ends in which a call of a file tool
\* threw an Error of one of the six kinds, the call has one tool result, which
\* tells the kind, and no notice of success; every call of the turn, and so
\* every call after the one that failed, was executed and has the result of
\* its execution; the agent is not Complete, and its next turn has started.
C22_ToolErrorRecovered ==
  [][\A a \in Agents :
       ToolTurnEnds(a) =>
         LET h == conversationHistory'[a]
             k == CHOOSE i \in 1..Len(h) :
                    /\ h[i].role = "assistant"
                    /\ \A j \in (i + 1)..Len(h) : h[j].role # "assistant"
             ids == h[k].calls
             failed == {i \in 1..Len(ids) : ThrownBy(log'.thrown, ids[i]) # {}}
         IN failed # {} =>
              /\ \A i \in failed :
                   /\ Cardinality(AnswersOf(h, ids[i])) = 1
                   /\ OutcomesOf(h, ids[i]) = ThrownBy(log'.thrown, ids[i])
                   /\ NoticesOf(h, ids[i]) = {}
              /\ \A i \in 1..Len(ids) :
                   /\ OutcomesOf(h, ids[i]) # {}
                   /\ "not_processed" \notin OutcomesOf(h, ids[i])
              /\ ~isComplete'[a]
              /\ isComplete'[a] = isComplete[a]
              /\ completeEmits'[a] = completeEmits[a]
              /\ turns'[a] = turns[a] + 1
              /\ inFlight'[a] = 1
    ]_vars

\* The tool results of backend's turn with this sequence of outcomes.
TurnOutcomes(tags) ==
  /\ AssistantTurns("backend") = 1
  /\ \E k \in 1..Len(conversationHistory["backend"]) :
       /\ conversationHistory["backend"][k].role = "assistant"
       /\ Len(conversationHistory["backend"][k].calls) = Len(tags)
       /\ \A i \in 1..Len(tags) :
            OutcomesOf(conversationHistory["backend"],
                       conversationHistory["backend"][k].calls[i]) = {tags[i]}

\* A turn of backend whose first call failed, whose second call created the
\* file and whose third call failed again; its next turn is in flight.
C22_Witness ==
  /\ TurnOutcomes(<<"NotFound", "created", "AlreadyExists">>)
  /\ ~isComplete["backend"]
  /\ inFlight["backend"] = 1
  /\ turns["backend"] = 2

(***************************************************************************)
(* Remediation guidance (GuidanceSpec).                                    *)
(***************************************************************************)
\* C23: the guidance selected for an Error of one of the six kinds is the
\* guidance of that kind, whatever the path or the search string that the
\* message of the Error repeats.
C23_GuidanceOfKind ==
  log.guided.kind \in WorkspaceErrorKinds =>
    log.guided.guidance = Guidance(log.guided.kind, log.guided.function)

(***************************************************************************)
(* Turns that fail (TurnSpec).                                             *)
(***************************************************************************)
\* A turn of agent a ends in the step because its call of the completion
\* service failed, or because an exception escaped its tool loop.
TurnFails(a) ==
  /\ TurnsEnded(a)' > TurnsEnded(a)
  /\ log'.lastTurn[a] = "error" \/ log'.fatal[a] > log.fatal[a]

\* C24: when a turn of an agent fails, the agent is Complete after the
\* step, has emitted one agent:complete signal in it and starts no turn;
\* the session is resolved as complete in the step if all agents are then
\* Complete, and stays as it was otherwise; and if the turn made no talk
\* call before it failed, no other agent's completion state, transcript,
\* inbox, talk count or count of turns changes.  (A talk call executed
\* before the exception has delivered its message.)
C24_FailedTurnCompletesAgent ==
  [][\A a \in Agents :
       TurnFails(a) =>
         /\ isComplete'[a]
         /\ completeEmits'[a] = completeEmits[a] + 1
         /\ turns'[a] = turns[a]
         /\ inFlight'[a] = inFlight[a] - 1
         /\ IF \A b \in Agents : isComplete'[b]
            THEN resolved' = "complete" /\ status' = "complete"
            ELSE resolved' = resolved /\ status' = status
         /\ \A b \in Agents \ {a} :
              /\ talkCallCount'[b] = talkCallCount[b]
              /\ talkCallCount'[a] = talkCallCount[a] =>
                   /\ isComplete'[b] = isComplete[b]
                   /\ conversationHistory'[b] = conversationHistory[b]
                   /\ inbox'[b] = inbox[b]
                   /\ turns'[b] = turns[b]
    ]_vars

\* An exception has escaped a turn of backend and the call of devops has
\* failed: both are Complete, frontend is not, and the session is active.
C24_Witness ==
  /\ log.fatal["backend"] = 1 /\ isComplete["backend"]
  /\ log.lastTurn["devops"] = "error" /\ isComplete["devops"]
  /\ ~isComplete["frontend"] /\ inFlight["frontend"] = 1
  /\ resolved = "pending" /\ status = "active"

(***************************************************************************)
(* The idle watchdog (Spec).                                               *)
(***************************************************************************)
\* The nudges of the idle watchdog in the transcript h.
IdleNudges(h) ==
  {i \in 1..Len(h) : h[i].role = "user" /\ h[i].tag = "idle_nudge"}

\* C25: a step that puts a nudge of the idle watchdog into the transcript
\* of an agent puts one, into the transcript of an agent that was not
\* Complete and whose idle time exceeded IDLE_THRESHOLD, and leaves the
\* agent's activity clock at the time of the check; it is a step of a
\* session that has not resolved, and once the session has resolved the
\* watchdog is stopped.
C25_NudgeOnlyIdleActive ==
  /\ [][\A a \in Agents :
         Cardinality(IdleNudges(conversationHistory'[a]))
           > Cardinality(IdleNudges(conversationHistory[a])) =>
           /\ Cardinality(IdleNudges(conversationHistory'[a]))
                = Cardinality(IdleNudges(conversationHistory[a])) + 1
           /\ ~isComplete[a]
           /\ now - lastActivityTime[a] > IDLE_THRESHOLD
           /\ lastActivityTime'[a] = now
           /\ now' = now
           /\ resolved = "pending"
           /\ nudgeInterval
      ]_vars
  /\ [](resolved # "pending" => ~nudgeInterval)

\* One agent has been nudged twice; another completed before the first
\* check and was never nudged; the session has since resolved.
C25_Witness ==
  \E a, b \in Agents :
    /\ Cardinality(IdleNudges(conversationHistory[a])) = 2
    /\ isComplete[b] /\ IdleNudges(conversationHistory[b]) = {}
    /\ resolved # "pending"

(***************************************************************************)
(* Delivery by the bus (BudgetSpec).                                       *)
(***************************************************************************)
\* C26: when a talk call that published a message has returned and its tool
\* result is not yet in the sender's transcript, the message lies in the
\* inbox of its target; and if the target was Complete when the message was
\* published, it has emitted its resumed signal, and, unless its talk budget
\* is spent (its turn then ends at the budget test and completes it again
\* at once), it is not Complete and not in the supervisor's set.
C26_DeliveryIsSynchronous ==
  log.lastTalk.published =>
    /\ log.lastTalk.inInbox
    /\ ~log.lastTalk.answered
    /\ log.lastTalk.wasComplete =>
         /\ log.lastTalk.resumed
         /\ log.lastTalk.withinBudget =>
              ~log.lastTalk.complete /\ ~log.lastTalk.inSet

\* The talk call made last met a target that was Complete and within its
\* budget, and its tool result is in the sender's transcript now.
C26_Witness ==
  /\ log.lastTalk.published
  /\ log.lastTalk.wasComplete
  /\ log.lastTalk.withinBudget
  /\ log.lastTalk.target = "backend"
  /\ \E p \in Agents \ {"backend"} :
       \E j \in 1..Len(conversationHistory[p]) :
         conversationHistory[p][j].role = "tool" /\ conversationHistory[p][j].tag = "sent"

(***************************************************************************)
(* Turns of an agent whose talk budget is spent (BudgetSpec).              *)
(***************************************************************************)
\* C27: an agent whose talk count has reached maxTalkCalls has no call of
\* the completion service in flight, and no step makes it call the
\* completion service: every step leaves its count of calls as it was and
\* leaves it Complete, and a step in which queued messages reactivated it
\* is one in which the turn that started completed it again, with one
\* agent:complete signal for each resumed signal.
C27_NoCallOnceBudgetSpent ==
  /\ [](\A a \in Agents : talkCallCount[a] >= maxTalkCalls => inFlight[a] = 0)
  /\ [][\A a \in Agents :
         talkCallCount[a] >= maxTalkCalls =>
           /\ turns'[a] = turns[a]
           /\ inFlight'[a] = 0
           /\ isComplete'[a]
           /\ completeEmits'[a] - completeEmits[a]
                = resumedEmits'[a] - resumedEmits[a]
      ]_vars

\* backend has spent its budget in two turns and has since been reactivated
\* by a message of each of its peers; it is Complete and has made no
\* further call of the completion service.
C27_Witness ==
  /\ talkCallCount["backend"] = maxTalkCalls
  /\ turns["backend"] = 2
  /\ resumedEmits["backend"] = 2
  /\ completeEmits["backend"] = 3
  /\ Len(inbox["backend"]) = 2
  /\ isComplete["backend"]

(***************************************************************************)
(* A talk call beyond the budget (BudgetSpec, in which no inbox message is *)
(* read).                                                                  *)
(***************************************************************************)
\* The tool results with this outcome in the transcript of agent a.
TalkResults(a, tag) ==
  {j \in 1..Len(conversationHistory[a]) :
     /\ conversationHistory[a][j].role = "tool"
     /\ conversationHistory[a][j].tag = tag}

\* C28: a talk call made when the talk count had reached maxTalkCalls was
\* refused: it did not count and delivered no message, so that the talk
\* count of an agent and the number of its messages in the inboxes are the
\* number of its talk calls that were not refused; and the transcript holds
\* no notice of success for a call that was refused.
C28_RefusedTalkFails ==
  \A a \in Agents :
    /\ talkCallCount[a] = Cardinality(TalkResults(a, "sent"))
    /\ Cardinality(QueuedFrom(a)) = Cardinality(TalkResults(a, "sent"))
    /\ \A j \in TalkResults(a, "cannot_talk") :
         NoticesOf(conversationHistory[a], conversationHistory[a][j].id) = {}

(***************************************************************************)
(* readMessage (TurnSpec).                                                 *)
(***************************************************************************)
\* The inbox messages that the transcript h holds after its first n
\* entries, in the order in which they were appended.
ReadAfter(h, n) ==
  SelectSeq(SubSeq(h, n + 1, Len(h)),
            LAMBDA e : e.role = "user" /\ e.tag = "inbox")

\* The tool results with this outcome that h holds after its first n
\* entries.
ResultsAfter(h, n, tag) ==
  {j \in (n + 1)..Len(h) : h[j].role = "tool" /\ h[j].tag = tag}

\* C29: in a turn with tool calls, the read_message calls that met a
\* message took the messages of the inbox from its end, the one queued last
\* first, and appended each to the transcript, in that order; those that
\* met an empty inbox returned the empty-inbox result and appended nothing;
\* the messages not read stay in the inbox in their order.  No other step
\* takes a message from an inbox.
C29_ReadMessageIsLifo ==
  [][\A a \in Agents :
       LET n == Len(conversationHistory[a])
           h == conversationHistory'[a]
           read == ReadAfter(h, n)
           r == Len(read)
           empty == Cardinality(ResultsAfter(h, n, "inbox_empty"))
       IN IF ToolTurnEnds(a)
          THEN /\ r <= Len(inbox[a])
               /\ inbox'[a] = SubSeq(inbox[a], 1, Len(inbox[a]) - r)
               /\ \A i \in 1..r : read[i].id = inbox[a][Len(inbox[a]) - i + 1].id
               /\ Cardinality(ResultsAfter(h, n, "message_read")) = r
               /\ empty > 0 => r = Len(inbox[a])
          ELSE /\ r = 0
               /\ Len(inbox'[a]) >= Len(inbox[a])
               /\ SubSeq(inbox'[a], 1, Len(inbox[a])) = inbox[a]
    ]_vars

\* backend has read the two messages of its inbox in one turn, the one
\* queued last first, and a third read found the inbox empty.
C29_Witness ==
  LET h == conversationHistory["backend"]
  IN /\ \E i, j \in 1..Len(h) :
          /\ i < j
          /\ h[i].role = "user" /\ h[i].tag = "inbox"
          /\ h[j].role = "user" /\ h[j].tag = "inbox"
          /\ h[i].id > h[j].id
     /\ ResultsAfter(h, 0, "inbox_empty") # {}
     /\ inbox["backend"] = <<>>

(***************************************************************************)
(* The owner of a lock (LockSpec).                                         *)
(***************************************************************************)
\* C30: a call that asks for the owner of a path returns the recorded owner
\* and leaves the locks as they were when the path has a lock that is less
\* than LOCK_TIMEOUT old; it returns none and leaves no lock on the path
\* when the lock is LOCK_TIMEOUT old or older, that is whenever an acquire
\* by another agent would succeed; and it returns none when the path has no
\* lock.
C30_OwnerAgreesWithLiveness ==
  [][LockStep("owner") =>
       LET p == log'.lastCall.path
           owner == log'.lastCall.val
       IN IF p \notin DOMAIN locks
          THEN owner = "null" /\ locks' = locks
          ELSE IF now - locks[p].timestamp < LOCK_TIMEOUT
               THEN owner = locks[p].agent /\ locks' = locks
               ELSE owner = "null" /\ p \notin DOMAIN locks'
    ]_vars

(***************************************************************************)
(* One owner per file (AliasSpec).                                         *)
(***************************************************************************)
\* Another agent than a holds a live lock taken through a spelling of the
\* file that path p names.
FileLockedByOther(p, a) ==
  \E q \in DOMAIN locks :
    /\ Resolve(q) = Resolve(p)
    /\ locks[q].agent # a
    /\ now - locks[q].timestamp < LOCK_TIMEOUT

\* C31: while an agent holds a live lock taken through one spelling of a
\* path, an acquire by a different agent through any path that resolves to
\* the same file fails and leaves the locks as they were.
C31_OneOwnerPerFile ==
  [][(LockStep("acquire")
      /\ FileLockedByOther(log'.lastCall.path, log'.lastCall.agent)) =>
       ~log'.lastCall.ok /\ locks' = locks
    ]_vars

(***************************************************************************)
(* Locks between callbacks (SnapshotSpec).                                 *)
(***************************************************************************)
\* The tool results of agent a that report a file locked by another agent.
LockedResults(a) ==
  {j \in 1..Len(conversationHistory[a]) :
     /\ conversationHistory[a][j].role = "tool"
     /\ conversationHistory[a][j].tag = "Locked"}

\* C32: at every point between two callbacks, where the turn of another
\* agent, a timer or a snapshot request can run, the lock table is empty;
\* no tool call of the session has failed with Locked, and no snapshot
\* read has.
C32_NoLockBetweenCallbacks ==
  /\ DOMAIN locks = {}
  /\ \A a \in Agents : LockedResults(a) = {}
  /\ log.lastCall.val # "Locked"

\* backend created the file and failed to create a path below it, devops
\* modified the file, and a snapshot has just read it.
C32_Witness ==
  /\ CreateResults("backend", "created") # {}
  /\ CreateResults("backend", "IOError") # {}
  /\ CreateResults("devops", "modified") # {}
  /\ log.lastCall.op = "read_file"
  /\ log.lastCall.ok
  /\ DOMAIN locks = {}

(***************************************************************************)
(* Malformed arguments (TurnSpec).                                         *)
(***************************************************************************)
\* The arguments of agent a's call with this id could not be used: they
\* were not JSON, or they were JSON that is not an object.
Malformed(thrown, a, callId) ==
  \E kind \in {"SyntaxError", "TypeError"} : <<callId, kind, a>> \in thrown

\* C33: when a turn with tool calls ends in which the arguments of a call
\* were malformed, that call has one tool result, the guided failure; the
\* loop was not left by an Error, so that every call of the turn has a
\* result; the agent is not Complete, and its next turn has started.
C33_MalformedArgumentsRecovered ==
  [][\A a \in Agents :
       ToolTurnEnds(a) =>
         LET h == conversationHistory'[a]
             k == CHOOSE i \in 1..Len(h) :
                    /\ h[i].role = "assistant"
                    /\ \A j \in (i + 1)..Len(h) : h[j].role # "assistant"
             ids == h[k].calls
             bad == {i \in 1..Len(ids) : Malformed(log'.thrown, a, ids[i])}
         IN bad # {} =>
              /\ \A i \in bad :
                   /\ Cardinality(AnswersOf(h, ids[i])) = 1
                   /\ OutcomesOf(h, ids[i]) = {"json_error"}
              /\ \A i \in 1..Len(ids) : OutcomesOf(h, ids[i]) # {}
              /\ log'.fatal[a] = log.fatal[a]
              /\ ~isComplete'[a]
              /\ completeEmits'[a] = completeEmits[a]
              /\ turns'[a] = turns[a] + 1
              /\ inFlight'[a] = 1
    ]_vars

(***************************************************************************)
(* The nudge after a text-only answer (TalkSpec).                          *)
(***************************************************************************)
\* The nudges for a text-only answer that transcript h holds.
TextNudgesIn(h) == {j \in 1..Len(h) : h[j].role = "user" /\ h[j].tag = "text_nudge"}

\* A turn of agent a ends in the step with a text-only answer that brings
\* the streak to 1.
FirstTextOnlyTurnEnds(a) ==
  /\ TurnsEnded(a)' > TurnsEnded(a)
  /\ log'.lastTurn[a] = "text"
  /\ textOnlyResponses'[a] = 1

\* The step is the callback of a's nudge timer.
TextNudgeTimerFires(a) == Len(textNudges'[a]) < Len(textNudges[a])

C35_PendingRerunHasLoop ==
  \A a \in Agents :
    (needsAnotherRun[a] /\ ~isComplete[a]) => isProcessing[a]

\* A message reached backend while its turn was in flight: the rerun is
\* pending behind the suspended turn; devops is idle with no rerun pending,
\* and frontend is Complete.
C35_Witness ==
  /\ needsAnotherRun["backend"]
  /\ ~isComplete["backend"]
  /\ isProcessing["backend"]
  /\ inFlight["backend"] = 1
  /\ ~isProcessing["devops"] /\ ~needsAnotherRun["devops"] /\ ~isComplete["devops"]
  /\ isComplete["frontend"] /\ ~isProcessing["frontend"]

(***************************************************************************)
(* The completion signals (BudgetSpec).                                    *)
(***************************************************************************)
\* C36: the agent:complete and agent:resumed signals of each agent
\* alternate, beginning with agent:complete: an agent that is Complete has
\* emitted one agent:complete more than agent:resumed, an agent that is not
\* has emitted as many of each; and the supervisor's set of completed agents
\* is the set of the agents that are Complete.
C36_SignalsAlternate ==
  /\ \A a \in Agents :
       completeEmits[a] = resumedEmits[a] + (IF isComplete[a] THEN 1 ELSE 0)
  /\ completedAgents = {a \in Agents : isComplete[a]}

\* backend has completed, resumed and completed again; devops has completed
\* and resumed and is at work; frontend has never completed.
C36_Witness ==
  /\ completeEmits["backend"] = 2 /\ resumedEmits["backend"] = 1
  /\ completeEmits["devops"] = 1 /\ resumedEmits["devops"] = 1
  /\ completeEmits["frontend"] = 0
  /\ completedAgents = {"backend"}

(***************************************************************************)
(* Conservation of the inbox (TurnSpec).                                   *)
(***************************************************************************)
\* The identities of the messages in the inbox of agent a.
InInbox(a) == {inbox[a][i].id : i \in 1..Len(inbox[a])}

\* The entries of a's transcript that a read of the inbox appended.
ReadEntries(a) ==
  {j \in 1..Len(conversationHistory[a]) :
     /\ conversationHistory[a][j].role = "user"
     /\ conversationHistory[a][j].tag = "inbox"}

\* The identities of the messages of those entries.
ReadIds(a) == {conversationHistory[a][j].id : j \in ReadEntries(a)}

\* The tool results of a's read_message calls that read a message.
MessageReadResults(a) ==
  {j \in 1..Len(conversationHistory[a]) :
     /\ conversationHistory[a][j].role = "tool"
     /\ conversationHistory[a][j].tag = "message_read"}

\* C37: for every agent, the messages ever queued for it are the messages
\* in its inbox together with the messages that read_message appended to
\* its transcript; no message is in both, none is twice in the inbox or
\* twice in the transcript, and every such entry of the transcript belongs
\* to one read_message call that read a message.
C37_InboxConservation ==
  \A a \in Agents :
    /\ InInbox(a) \cup ReadIds(a) = log.queued[a]
    /\ InInbox(a) \cap ReadIds(a) = {}
    /\ Cardinality(InInbox(a)) = Len(inbox[a])
    /\ Cardinality(ReadIds(a)) = Cardinality(ReadEntries(a))
    /\ Cardinality(ReadEntries(a)) = Cardinality(MessageReadResults(a))

\* Two messages were queued for backend: it has read one, and the other is
\* in its inbox.
C37_Witness ==
  /\ Cardinality(log.queued["backend"]) = 2
  /\ Len(inbox["backend"]) = 1
  /\ Cardinality(ReadEntries("backend")) = 1
  /\ Cardinality(log.queued["devops"]) >= 1

(***************************************************************************)
(* A budget spent in the middle of a turn (ForcedSpec).                    *)
(***************************************************************************)
\* A turn of agent a with tool calls ends in the step, and a talk call of
\* it has brought the talk count of a to maxTalkCalls.
BudgetSpentInTurn(a) ==
  /\ ToolTurnEnds(a)
  /\ talkCallCount[a] < maxTalkCalls
  /\ talkCallCount'[a] = maxTalkCalls

\* C38: when a turn ends in which a talk call has spent the budget of the
\* agent, every call of the turn has one tool result, and the calls after
\* that talk call were executed: none has the result of a call that was not
\* processed, a further talk call is refused, and a create or replace that
\* succeeded has changed the files; the agent is Complete and no turn of it
\* has started.  In no step does a Complete agent start a turn, unless a
\* message was queued for it in that step, with which it emitted an
\* agent:resumed signal.
C38_TurnFinishesAfterBudget ==
  [][\A a \in Agents :
       /\ BudgetSpentInTurn(a) =>
            \A h \in {conversationHistory'[a]} :
              \A k \in {CHOOSE i \in 1..Len(h) :
                          /\ h[i].role = "assistant"
                          /\ \A j \in (i + 1)..Len(h) : h[j].role # "assistant"} :
                \A ids \in {h[k].calls} :
                  \A last \in {maxTalkCalls - talkCallCount[a]} :
                    \A outcomes \in {UNION {OutcomesOf(h, ids[i]) :
                                               i \in (last + 1)..Len(ids)}} :
                      /\ \A i \in 1..Len(ids) :
                           \A id \in {ids[i]} : Cardinality(AnswersOf(h, id)) = 1
                      /\ \A i \in 1..last :
                           \A id \in {ids[i]} : OutcomesOf(h, id) = {"sent"}
                      /\ outcomes \subseteq
                           {"created", "AlreadyExists", "cannot_talk", "modified",
                            "NoMatch"}
                      /\ outcomes \cap {"created", "modified"} # {} => files' # files
                      /\ isComplete'[a]
                      /\ inFlight'[a] = 0
                      /\ turns'[a] = turns[a]
       /\ (isComplete[a] /\ turns'[a] > turns[a]) =>
            /\ log'.queued[a] # log.queued[a]
            /\ resumedEmits'[a] > resumedEmits[a]
    ]_vars

\* backend spent its budget at the fifteenth call of its second turn: the
\* create and the replace that followed made the file, the talk between them
\* was refused, and backend is Complete with no turn in flight.
C38_Witness ==
  /\ talkCallCount["backend"] = maxTalkCalls
  /\ AssistantTurns("backend") = 2
  /\ Resolve(AppFile) \in DOMAIN files
  /\ files[Resolve(AppFile)] = <<"c", "b">>
  /\ CreateResults("backend", "cannot_talk") # {}
  /\ CreateResults("backend", "modified") # {}
  /\ isComplete["backend"]
  /\ inFlight["backend"] = 0
  /\ turns["backend"] = 2

(***************************************************************************)
(* The text-only streak across a reactivation (TalkSpec).                  *)
(***************************************************************************)
\* A turn of agent a that was answered with text only ends in the step.
TextTurnEnds(a) ==
  TurnsEnded(a)' > TurnsEnded(a) /\ log'.lastTurn[a] = "text"

\* C39: the text-only streak of an agent changes only at the end of a turn
\* of that agent: an answer with tool calls sets it to 0 and a text-only
\* answer adds one; a step in which the agent is reactivated from Complete
\* leaves it as it was.  So a text-only answer of an agent whose streak had
\* reached 2, which had made it Complete, makes the reactivated agent
\* Complete again at once, with an agent:complete signal and without a new
\* nudge timer.
C39_StreakSurvivesReactivation ==
  [][\A a \in Agents :
       /\ textOnlyResponses'[a] # textOnlyResponses[a] =>
            \/ ToolTurnEnds(a) /\ textOnlyResponses'[a] = 0
            \/ TextTurnEnds(a) /\ textOnlyResponses'[a] = textOnlyResponses[a] + 1
       /\ ToolTurnEnds(a) => textOnlyResponses'[a] = 0
       /\ resumedEmits'[a] > resumedEmits[a] =>
            textOnlyResponses'[a] = textOnlyResponses[a]
       /\ (TextTurnEnds(a) /\ textOnlyResponses[a] >= 2) =>
            /\ ~isComplete[a]
            /\ resumedEmits[a] > 0
            /\ isComplete'[a]
            /\ completeEmits'[a] = completeEmits[a] + 1
            /\ textNudges'[a] = textNudges[a]
            /\ conversationHistory'[a] = conversationHistory[a]
    ]_vars

\* backend became Complete on its second text-only answer, was reactivated
\* by a message of a peer, and became Complete again on its next answer,
\* which was text only; no nudge is pending for it.
C39_Witness ==
  /\ textOnlyResponses["backend"] = 3
  /\ completeEmits["backend"] = 2
  /\ resumedEmits["backend"] = 1
  /\ isComplete["backend"]
  /\ textNudges["backend"] = <<>>
  /\ Cardinality(TextNudgesIn(conversationHistory["backend"])) = 1

(***************************************************************************)
(* The frame of a text-only turn (TalkSpec).                               *)
(***************************************************************************)
\* The transcript that a request replays: the request without the system
\* prompt before it and the notice of unread messages after it.
TranscriptOf(req) ==
  SelectSeq(req, LAMBDA e : e.tag \notin {"prompt", "inbox_notice"})

\* C40: the step in which a text-only turn of an agent ends leaves the
\* transcript, the inbox and the talk count of the agent as they were; and
\* the call of the completion service that follows a text-only turn replays
\* the transcript of the call before it, followed only by the messages that
\* were delivered to the agent since, which is the transcript of the agent
\* at that call.
C40_TextOnlyTurnFrame ==
  [][\A a \in Agents :
       /\ TextTurnEnds(a) =>
            /\ conversationHistory'[a] = conversationHistory[a]
            /\ inbox'[a] = inbox[a]
            /\ talkCallCount'[a] = talkCallCount[a]
       /\ (turns'[a] > turns[a] /\ log'.lastTurn[a] = "text") =>
            \A old \in {TranscriptOf(request[a])} :
              \A new \in {TranscriptOf(request'[a])} :
                /\ Len(new) >= Len(old)
                /\ SubSeq(new, 1, Len(old)) = old
                /\ \A j \in (Len(old) + 1)..Len(new) : new[j].role = "user"
                /\ new = conversationHistory'[a]
    ]_vars

\* After a text-only turn each, the second call of backend replays its
\* transcript with the nudge that arrived since, and the second call of
\* devops replays its transcript with the notice of an unread message.
C40_Witness ==
  /\ log.lastTurn["backend"] = "text"
  /\ turns["backend"] = 2 /\ inFlight["backend"] = 1
  /\ request["backend"] =
       <<SystemEntry("prompt", 0), UserEntry("seed", 0), UserEntry("text_nudge", 0)>>
  /\ log.lastTurn["devops"] = "text"
  /\ turns["devops"] = 2 /\ inFlight["devops"] = 1
  /\ request["devops"] =
       <<SystemEntry("prompt", 0), UserEntry("seed", 0), SystemEntry("inbox_notice", 0)>>

=============================================================================
